---- MODULE Spec2Model ----
(***************************************************************************)
(* State-machine model of hs_restclient: the HydroShare client object, its *)
(* session handling (_initializeSession, _request), the paginated list     *)
(* generators, the bag (archive) retrieval with readiness polling, the     *)
(* plain get operations and createResource.                                *)
(*                                                                         *)
(* The server and the network are the environment: every response and     *)
(* every transport outcome is chosen nondeterministically from small sets. *)
(* One client call is in progress at a time (the library is synchronous);  *)
(* op/log/result describe the call in progress or the last finished call.  *)
(***************************************************************************)
EXTENDS Integers, Sequences, FiniteSets, TLC

VARIABLES
    hs,        \* the HydroShare object: auth, use_https, url_base, session, _resource_types
    net,       \* sessions ever created and the ones closed (requests library state)
    op,        \* the call in progress / last call: [name, args]
    log,       \* events of that call in order: _request calls (with the
               \* response each received) and sleeps
    result,    \* outcome of that call: Pending, Return(v) or Raise(exc)
    pc,        \* position of the client: "idle", generator and bag positions
    gen,       \* locals of the list generator frame
    yielded,   \* items the generator delivered to its consumer, in order
    bag,       \* locals of the getResource / _getBagStream frames
    fs,        \* the local filesystem: files, temporary directories, extracted trees
    __debug__  \* the interpreter's __debug__: FALSE under python -O, which drops asserts

vars == <<hs, net, op, log, result, pc, gen, yielded, bag, fs, __debug__>>

\* What no call of the client changes but the ones that store an archive.
env == <<fs, __debug__>>

-----------------------------------------------------------------------------
(* Bounds of the model *)

MaxSessions == 2      \* sessions created per client (caps connection failures)
MaxPages == 2         \* page requests per listing
MaxPolls == 2         \* task-status polls per archive retrieval
MaxBody == 2          \* bytes in a response body
ChunkLen == 1         \* bytes per chunk: stands for STREAM_CHUNK_SIZE (100 KiB)

-----------------------------------------------------------------------------
(* Values *)

None == "None"
Pids == {"p1", "p2"}
StatusCodes == {200, 201, 403, 404, 500}

RECURSIVE SeqsUpTo(_, _)
SeqsUpTo(S, n) ==
    IF n = 0 THEN {<< >>}
    ELSE LET shorter == SeqsUpTo(S, n - 1)
         IN shorter \cup {Append(s, x) : s \in {q \in shorter : Len(q) = n - 1}, x \in S}


RECURSIVE Concat(_)
Concat(ss) == IF ss = << >> THEN << >> ELSE Head(ss) \o Concat(Tail(ss))

\* A python tuple, as opposed to any other object handed to a constructor.
Tuple(items) == [py |-> "tuple", items |-> items]

\* A local variable: v is computed once and the rest, F, reads it.
Bind(v, F(_)) == CHOOSE y \in {F(x) : x \in {v}} : TRUE

Pending == [kind |-> "pending"]
Return(v) == [kind |-> "return", value |-> v]
Raise(e) == [kind |-> "raise", exc |-> e]

-----------------------------------------------------------------------------
(* Exceptions *)

HydroShareException(args) == [type |-> "HydroShareException", args |-> args]

HydroShareArgumentException(args) == [type |-> "HydroShareArgumentException", args |-> args]

HydroShareBagNotReadyException(args) ==
    [type |-> "HydroShareBagNotReadyException", args |-> args]

HydroShareNotAuthorized(args) ==
    [type |-> "HydroShareNotAuthorized", method |-> args.items[1], url |-> args.items[2]]

HydroShareNotFound(args) ==
    [type |-> "HydroShareNotFound", pid |-> args.items[1],
     filename |-> IF Len(args.items) >= 2 THEN args.items[2] ELSE None]

\* args[0], args[1], args[2] index the argument: a Response object is not
\* subscriptable, so indexing it raises TypeError instead.
HydroShareHTTPException(args) ==
    IF args.py = "tuple"
    THEN [type |-> "HydroShareHTTPException", url |-> args.items[1],
          method |-> args.items[2], status_code |-> args.items[3],
          params |-> IF Len(args.items) >= 4 THEN args.items[4] ELSE None]
    ELSE [type |-> "TypeError"]

\* super(HydroShareArgumentException, self) with self of another class: TypeError.
HydroShareAuthenticationException(args) == [type |-> "TypeError"]

ConnectionError == [type |-> "ConnectionError"]
ValueError == [type |-> "ValueError"]
KeyError(k) == [type |-> "KeyError", key |-> k]

\* The exception types that derive from HydroShareException.
HydroShareExceptionFamily ==
    {"HydroShareException", "HydroShareArgumentException",
     "HydroShareBagNotReadyException", "HydroShareNotAuthorized",
     "HydroShareNotFound", "HydroShareHTTPException"}

-----------------------------------------------------------------------------
(* Construction and session handling *)

AuthNone == [kind |-> "None", token |-> FALSE, username |-> FALSE, password |-> FALSE]
AuthBasic == [kind |-> "Basic", token |-> FALSE, username |-> TRUE, password |-> TRUE]
AuthOAuth2Token == [kind |-> "OAuth2", token |-> TRUE, username |-> FALSE, password |-> FALSE]
AuthOAuth2Password == [kind |-> "OAuth2", token |-> FALSE, username |-> TRUE, password |-> TRUE]

Scheme(https) == IF https THEN "https://" ELSE "http://"

\* url_base as a token sequence: scheme, then host and the /hsapi prefix.
UrlBase(https) == <<Scheme(https), "www.hydroshare.org/hsapi">>

\* Mutant of _initializeSession: the session in place is not closed.
_initializeSession_LeavesOpen(self, n, fetch_ok) ==
    LET closed1 == n.closed
        fresh == n.created + 1
        installed == [self |-> [self EXCEPT !.session = fresh],
                      net |-> [created |-> fresh, closed |-> closed1],
                      raised |-> FALSE, exc |-> None]
        failed(e) == [self |-> self, net |-> [n EXCEPT !.closed = closed1],
                      raised |-> TRUE, exc |-> e]
    IN  IF self.auth.kind = "None" THEN installed
        ELSE IF self.auth.kind = "Basic"
        THEN IF ~self.use_https
             THEN failed(HydroShareAuthenticationException("HTTPS is required"))
             ELSE installed
        ELSE IF self.auth.kind = "OAuth2"
        THEN IF ~self.use_https
             THEN failed(HydroShareAuthenticationException("HTTPS is required"))
             ELSE IF ~self.auth.token
             THEN IF ~self.auth.username \/ ~self.auth.password
                  THEN failed(HydroShareAuthenticationException("Username and password"))
                  ELSE IF fetch_ok THEN installed
                       ELSE [installed EXCEPT !.raised = TRUE, !.exc = ConnectionError]
             ELSE installed
        ELSE failed(HydroShareAuthenticationException("Unsupported"))

\* Closes the current session, then installs a new one according to self.auth.
\* fetch_ok: whether OAuth2Session.fetch_token (password grant) succeeds.
_initializeSession(self, n, fetch_ok) ==
    LET closed1 == IF self.session # 0 THEN n.closed \cup {self.session} ELSE n.closed
        fresh == n.created + 1
        installed == [self |-> [self EXCEPT !.session = fresh],
                      net |-> [created |-> fresh, closed |-> closed1],
                      raised |-> FALSE, exc |-> None]
        failed(e) == [self |-> self, net |-> [n EXCEPT !.closed = closed1],
                      raised |-> TRUE, exc |-> e]
    IN  IF self.auth.kind = "None" THEN installed
        ELSE IF self.auth.kind = "Basic"
        THEN IF ~self.use_https
             THEN failed(HydroShareAuthenticationException("HTTPS is required"))
             ELSE installed
        ELSE IF self.auth.kind = "OAuth2"
        THEN IF ~self.use_https
             THEN failed(HydroShareAuthenticationException("HTTPS is required"))
             ELSE IF ~self.auth.token
             THEN IF ~self.auth.username \/ ~self.auth.password
                  THEN failed(HydroShareAuthenticationException("Username and password"))
                  ELSE IF fetch_ok THEN installed
                       ELSE [installed EXCEPT !.raised = TRUE, !.exc = ConnectionError]
             ELSE installed
        ELSE failed(HydroShareAuthenticationException("Unsupported"))

\* Outcomes of the transport for one _request call: the first send, the token
\* fetch of a re-initialization, the second send.
Ok == "ok"
Fail == "ConnectionError"
TransportOutcomes(self, n) ==
    {[first |-> Ok, fetch |-> TRUE, second |-> Ok]}
    \cup (IF n.created < MaxSessions
          THEN {[first |-> Fail, fetch |-> TRUE, second |-> Ok],
                [first |-> Fail, fetch |-> TRUE, second |-> Fail]}
               \cup (IF self.auth.kind = "OAuth2" /\ ~self.auth.token
                     THEN {[first |-> Fail, fetch |-> FALSE, second |-> Ok]}
                     ELSE {})
          ELSE {})

NoResponse == [py |-> "NoResponse", status_code |-> 0]

\* What one _request call did: sends counts the session.request invocations,
\* inits the _initializeSession calls, sessions the session in place before
\* and after.
RequestEvent(method, url, params, t, sends, inits, sessions, r) ==
    [ev |-> "request", method |-> method, url |-> url, params |-> params,
     transport |-> t, sends |-> sends, inits |-> inits, sessions |-> sessions,
     response |-> r]

\* Mutant of _request: after the re-initialization the request is not sent again.
_request_NoResend(self, n, method, url, params, t, r) ==
    IF t.first = Ok
    THEN [self |-> self, net |-> n, raised |-> FALSE, exc |-> None,
          event |-> RequestEvent(method, url, params, t, 1, 0,
                                <<self.session, self.session>>, r)]
    ELSE LET init == _initializeSession(self, n, t.fetch)
         IN  [self |-> init.self, net |-> init.net, raised |-> TRUE,
              exc |-> IF init.raised THEN init.exc ELSE ConnectionError,
              event |-> RequestEvent(method, url, params, t, 1, 1,
                                     <<self.session, init.self.session>>, NoResponse)]

\* One call of HydroShare._request under transport outcome t; r is the response
\* the server gives to the send that gets through.
_request(self, n, method, url, params, t, r) ==
    IF t.first = Ok
    THEN [self |-> self, net |-> n, raised |-> FALSE, exc |-> None,
          event |-> RequestEvent(method, url, params, t, 1, 0,
                                <<self.session, self.session>>, r)]
    ELSE LET retry(init) ==
                 IF init.raised
                 THEN [self |-> init.self, net |-> init.net, raised |-> TRUE, exc |-> init.exc,
                       event |-> RequestEvent(method, url, params, t, 1, 1,
                                             <<self.session, init.self.session>>, NoResponse)]
                 ELSE [self |-> init.self, net |-> init.net,
                       raised |-> t.second # Ok,
                       exc |-> IF t.second # Ok THEN ConnectionError ELSE None,
                       event |-> RequestEvent(method, url, params, t, 2, 1,
                                             <<self.session, init.self.session>>,
                                             IF t.second # Ok THEN NoResponse ELSE r)]
         IN  Bind(_initializeSession(self, n, t.fetch), retry)

-----------------------------------------------------------------------------
(* Responses of the server *)


Bodies == SeqsUpTo({0, 1}, MaxBody)

\* Response to a metadata-style GET: a status and a text body.
DocResponses == [py : {"Response"}, status_code : StatusCodes, content : {"{a}", "{b}", "<html>"}]

\* Response to a file GET: a status and a byte body.
FileResponses == [py : {"Response"}, status_code : StatusCodes, content : Bodies]

\* r.json(): the parsed body, or ValueError when the body is not JSON.
json(r) == IF r.content \in {"{a}", "{b}"} THEN Return(r.content) ELSE Raise(ValueError)


\* Mutant of iter_content: the last chunk of the body is never delivered.
iter_content_DropsTail(content, chunk_size) ==
    IF Len(content) <= chunk_size THEN << >>
    ELSE <<SubSeq(content, 1, chunk_size)>>

\* r.iter_content(chunk_size): the body cut into chunks of chunk_size bytes,
\* the last one possibly shorter.
RECURSIVE iter_content(_, _)
iter_content(content, chunk_size) ==
    IF content = << >> THEN << >>
    ELSE LET k == IF chunk_size < Len(content) THEN chunk_size ELSE Len(content)
         IN  <<SubSeq(content, 1, k)>>
             \o iter_content(SubSeq(content, k + 1, Len(content)), chunk_size)

STREAM_CHUNK_SIZE == ChunkLen

-----------------------------------------------------------------------------
(* Plain get operations: each returns [self, net, log, result] *)

Outcome(rq, res) == [self |-> rq.self, net |-> rq.net, log |-> <<rq.event>>, result |-> res]

getSystemMetadata(self, n, pid, r, t) ==
    LET url == self.url_base \o <<"/resource/", pid, "/sysmeta/">>
        rq == _request(self, n, "GET", url, None, t, r)
    IN  IF rq.raised THEN Outcome(rq, Raise(rq.exc))
        ELSE IF r.status_code # 200
        THEN IF r.status_code = 403
             THEN Outcome(rq, Raise(HydroShareNotAuthorized(Tuple(<<"GET", url>>))))
             ELSE IF r.status_code = 404
             THEN Outcome(rq, Raise(HydroShareNotFound(Tuple(<<pid>>))))
             ELSE Outcome(rq, Raise(HydroShareHTTPException(Tuple(<<url, "GET", r.status_code>>))))
        ELSE Outcome(rq, json(r))

getScienceMetadataRDF(self, n, pid, r, t) ==
    LET url == self.url_base \o <<"/scimeta/", pid, "/">>
        rq == _request(self, n, "GET", url, None, t, r)
    IN  IF rq.raised THEN Outcome(rq, Raise(rq.exc))
        ELSE IF r.status_code # 200
        THEN IF r.status_code = 403
             THEN Outcome(rq, Raise(HydroShareNotAuthorized(Tuple(<<"GET", url>>))))
             ELSE IF r.status_code = 404
             THEN Outcome(rq, Raise(HydroShareNotFound(Tuple(<<pid>>))))
             ELSE Outcome(rq, Raise(HydroShareHTTPException(Tuple(<<url, "GET", r.status_code>>))))
        ELSE Outcome(rq, Return(r.content))

getScienceMetadata(self, n, pid, r, t) ==
    LET url == self.url_base \o <<"/resource/", pid, "/scimeta/elements">>
        rq == _request(self, n, "GET", url, None, t, r)
    IN  IF rq.raised THEN Outcome(rq, Raise(rq.exc))
        ELSE IF r.status_code # 200
        THEN IF r.status_code = 403
             THEN Outcome(rq, Raise(HydroShareNotAuthorized(Tuple(<<"GET", url>>))))
             ELSE IF r.status_code = 404
             THEN Outcome(rq, Raise(HydroShareNotFound(Tuple(<<pid>>))))
             ELSE Outcome(rq, Raise(HydroShareHTTPException(Tuple(<<url, "GET", r.status_code>>))))
        ELSE Outcome(rq, json(r))

getResourceMap(self, n, pid, r, t) ==
    LET url == self.url_base \o <<"/resource/", pid, "/map/">>
        rq == _request(self, n, "GET", url, None, t, r)
    IN  IF rq.raised THEN Outcome(rq, Raise(rq.exc))
        ELSE IF r.status_code # 200
        THEN IF r.status_code = 403
             THEN Outcome(rq, Raise(HydroShareNotAuthorized(Tuple(<<"GET", url>>))))
             ELSE IF r.status_code = 404
             THEN Outcome(rq, Raise(HydroShareNotFound(Tuple(<<pid>>))))
             ELSE Outcome(rq, Raise(HydroShareHTTPException(Tuple(<<url, "GET", r.status_code>>))))
        ELSE Outcome(rq, Return(r.content))

getResourceFolderContents(self, n, pid, pathname, r, t) ==
    LET url == self.url_base \o <<"/resource/", pid, "/folders/", pathname>>
        rq == _request(self, n, "GET", url, None, t, r)
    IN  IF rq.raised THEN Outcome(rq, Raise(rq.exc))
        ELSE IF r.status_code # 200
        THEN IF r.status_code = 403
             THEN Outcome(rq, Raise(HydroShareNotAuthorized(Tuple(<<"GET", url>>))))
             ELSE IF r.status_code = 404
             THEN Outcome(rq, Raise(HydroShareNotFound(Tuple(<<pid>>))))
             ELSE Outcome(rq, Raise(HydroShareHTTPException(Tuple(<<url, "GET", r.status_code>>))))
        ELSE Outcome(rq, json(r))

\* Mutant of getUserInfo: 403 is singled out as NotAuthorized.
getUserInfo_Classifies403(self, n, r, t) ==
    LET url == self.url_base \o <<"/userInfo/">>
        rq == _request(self, n, "GET", url, None, t, r)
    IN  IF rq.raised THEN Outcome(rq, Raise(rq.exc))
        ELSE IF r.status_code # 200
        THEN IF r.status_code = 403
             THEN Outcome(rq, Raise(HydroShareNotAuthorized(Tuple(<<"GET", url>>))))
             ELSE Outcome(rq, Raise(HydroShareHTTPException(Tuple(<<url, "GET", r.status_code>>))))
        ELSE Outcome(rq, json(r))

getUserInfo(self, n, r, t) ==
    LET url == self.url_base \o <<"/userInfo/">>
        rq == _request(self, n, "GET", url, None, t, r)
    IN  IF rq.raised THEN Outcome(rq, Raise(rq.exc))
        ELSE IF r.status_code # 200
        THEN Outcome(rq, Raise(HydroShareHTTPException(Tuple(<<url, "GET", r.status_code>>))))
        ELSE Outcome(rq, json(r))

-----------------------------------------------------------------------------
(* Resource types and createResource *)

ResourceTypeNames == {"GenericResource", "RasterResource"}

\* Response to GET resource/types: a JSON list of {resource_type: name}.
TypesResponses ==
    [py : {"Response"}, status_code : StatusCodes,
     types : {<<"GenericResource">>, <<"RasterResource", "GenericResource">>}]

getResourceTypes(self, n, r, t) ==
    LET url == self.url_base \o <<"/resource/types">>
        answer(rq) ==
            IF rq.raised THEN Outcome(rq, Raise(rq.exc))
            ELSE IF r.status_code # 200
            THEN Outcome(rq, Raise(HydroShareHTTPException(Tuple(<<url, "GET", r.status_code>>))))
            ELSE Outcome(rq, Return({r.types[i] : i \in 1..Len(r.types)}))
    IN  Bind(_request(self, n, "GET", url, None, t, r), answer)


\* Mutant of resource_types: the set that was fetched is not kept.
resource_types_ForgetsFetch(self, n, r, t) ==
    IF self._resource_types.is_none
    THEN LET cache(o) ==
                 IF o.result.kind = "raise"
                 THEN [self |-> o.self, net |-> o.net, log |-> o.log,
                       raised |-> TRUE, exc |-> o.result.exc, value |-> {}]
                 ELSE [self |-> o.self, net |-> o.net, log |-> o.log,
                       raised |-> FALSE, exc |-> None, value |-> o.result.value]
         IN  Bind(getResourceTypes(self, n, r, t), cache)
    ELSE [self |-> self, net |-> n, log |-> << >>,
          raised |-> FALSE, exc |-> None, value |-> self._resource_types.value]

\* The resource_types property: fetches the set on first use and caches it.
\* Returns [self, net, log, raised, exc, value].
resource_types(self, n, r, t) ==
    IF self._resource_types.is_none
    THEN LET cache(o) ==
                 IF o.result.kind = "raise"
                 THEN [self |-> o.self, net |-> o.net, log |-> o.log,
                       raised |-> TRUE, exc |-> o.result.exc, value |-> {}]
                 ELSE [self |-> [o.self EXCEPT !._resource_types = [is_none |-> FALSE, value |-> o.result.value]],
                       net |-> o.net, log |-> o.log,
                       raised |-> FALSE, exc |-> None, value |-> o.result.value]
         IN  Bind(getResourceTypes(self, n, r, t), cache)
    ELSE [self |-> self, net |-> n, log |-> << >>,
          raised |-> FALSE, exc |-> None, value |-> self._resource_types.value]

\* Response to the POST that creates a resource; resource_id None stands for a
\* body that has no resource_id to read.
CreateResponses ==
    [py : {"Response"}, status_code : StatusCodes, resource_id : {"p1", None}]

\* Mutant of IsKnownType: every resource type passes.
IsKnownType_Always(resource_type, types) == TRUE

\* resource_type not in self.resource_types
IsKnownType(resource_type, types) == resource_type \in types

\* A resource_file argument: a path (a str) to a file that is or is not
\* readable, or a file-like object (kind "file"); kind "None" is the default,
\* resource_file=None.
ResourcePath(readable) == [kind |-> "str", readable |-> readable, basename |-> "f.txt"]

\* Mutant of _prepareFileForUpload: a file-like object is taken without a name.
_prepareFileForUpload_AcceptsUnnamed(resource_file, resource_filename) ==
    IF resource_file.kind = "str"
    THEN IF ~resource_file.readable
         THEN [raised |-> TRUE, exc |-> HydroShareArgumentException("is not a file or is not readable"),
               fname |-> None, close_fd |-> FALSE]
         ELSE [raised |-> FALSE, exc |-> None,
               fname |-> IF resource_filename = None THEN resource_file.basename
                         ELSE resource_filename,
               close_fd |-> TRUE]
    ELSE [raised |-> FALSE, exc |-> None, fname |-> resource_filename, close_fd |-> FALSE]

\* _prepareFileForUpload: [raised, exc, fname, close_fd].
_prepareFileForUpload(resource_file, resource_filename) ==
    IF resource_file.kind = "str"
    THEN IF ~resource_file.readable
         THEN [raised |-> TRUE, exc |-> HydroShareArgumentException("is not a file or is not readable"),
               fname |-> None, close_fd |-> FALSE]
         ELSE [raised |-> FALSE, exc |-> None,
               fname |-> IF resource_filename = None THEN resource_file.basename
                         ELSE resource_filename,
               close_fd |-> TRUE]
    ELSE IF resource_filename = None
         THEN [raised |-> TRUE, exc |-> HydroShareArgumentException("resource_filename must be specified"),
               fname |-> None, close_fd |-> FALSE]
         ELSE [raised |-> FALSE, exc |-> None, fname |-> resource_filename, close_fd |-> FALSE]

\* createResource(resource_type, title, resource_file, resource_filename);
\* resource_file None: no file is uploaded.
\* tr, t1: response and transport of the types GET, when one is made.
createResource(self, n, resource_type, title, resource_file, resource_filename, tr, t1, r, t2) ==
    LET url == self.url_base \o <<"/resource/">>
        plain == [resource_type |-> resource_type, title |-> title]
        stopped(rt, e) == [self |-> rt.self, net |-> rt.net, log |-> rt.log, result |-> Raise(e)]
        posted(rt, rq, res) == [self |-> rq.self, net |-> rq.net,
                                log |-> Append(rt.log, rq.event), result |-> res]
        post(rt, rq, params) ==
            IF rq.raised THEN posted(rt, rq, Raise(rq.exc))
            ELSE IF r.status_code # 201
            THEN IF r.status_code = 403
                 THEN posted(rt, rq, Raise(HydroShareNotAuthorized(Tuple(<<"POST", url>>))))
                 ELSE posted(rt, rq, Raise(HydroShareHTTPException(
                                               Tuple(<<url, "POST", r.status_code, params>>))))
            ELSE IF r.resource_id = None THEN posted(rt, rq, Raise(ValueError))
            ELSE posted(rt, rq, Return(r.resource_id))
        send(rt, params) ==
            Bind(_request(rt.self, rt.net, "POST", url, params, t2, r),
                 LAMBDA rq : post(rt, rq, params))
        upload(rt, f) ==
            IF f.raised THEN stopped(rt, f.exc)
            ELSE send(rt, [resource_type |-> resource_type, title |-> title, file |-> f.fname])
        create(rt) ==
            IF rt.raised THEN stopped(rt, rt.exc)
            ELSE IF ~IsKnownType(resource_type, rt.value)
            THEN stopped(rt, HydroShareArgumentException(<<resource_type, rt.value>>))
            ELSE IF resource_file.kind # "None"
            THEN Bind(_prepareFileForUpload(resource_file, resource_filename),
                      LAMBDA f : upload(rt, f))
            ELSE send(rt, plain)
    IN  Bind(resource_types(self, n, tr, t1), create)

-----------------------------------------------------------------------------
(* Paginated list generators *)



\* A JSON field of the envelope: absent, null, or a value.
Missing(v) == [tag |-> "missing", v |-> v]
Null(v) == [tag |-> "null", v |-> v]
Val(v) == [tag |-> "value", v |-> v]


\* Python truth value of res['next'] once the key is known to be present.
Truthy(field) == field.tag = "value" /\ field.v # << >>

\* Page responses: the envelope matters only with status 200.
PageResponses ==
    [py : {"Response"}, status_code : {200},
     results : {Missing(<< >>), Val(<< >>), Val(<<1>>), Val(<<2, 1>>)},
     next : {Missing(<< >>), Null(<< >>), Val(<< >>),
             Val(<<"http://", "www.hydroshare.org/hsapi/resource/?page=2">>),
             Val(<<"https://", "www.hydroshare.org/hsapi/resource/?page=2">>),
             Val(<<"http://", "www.hydroshare.org/hsapi/resource/?page=2&from=",
                   "http://", "www.hydroshare.org">>)}]
    \cup [py : {"Response"}, status_code : StatusCodes \ {200},
          results : {Val(<< >>)}, next : {Null(<< >>)}]

\* str.replace(old, new, 1) on a URL held as a token sequence.
RECURSIVE ReplaceFirst(_, _, _)
ReplaceFirst(url, old, new) ==
    IF url = << >> THEN << >>
    ELSE IF Head(url) = old THEN <<new>> \o Tail(url)
    ELSE <<Head(url)>> \o ReplaceFirst(Tail(url), old, new)

\* Mutant of _getResultsListGenerator_raise: 404 is not told from the other
\* failure statuses.
_getResultsListGenerator_raise_NoNotFound(r, url, params) ==
    IF r.status_code = 403 THEN HydroShareNotAuthorized(Tuple(<<"GET", url>>))
    ELSE HydroShareHTTPException(Tuple(<<url, "GET", r.status_code, params>>))

\* The non-200 branch of HydroShare._getResultsListGenerator.
_getResultsListGenerator_raise(r, url, params) ==
    IF r.status_code = 403 THEN HydroShareNotAuthorized(Tuple(<<"GET", url>>))
    ELSE IF r.status_code = 404 THEN HydroShareNotFound(Tuple(<<url>>))
    ELSE HydroShareHTTPException(Tuple(<<url, "GET", r.status_code, params>>))

\* The non-200 branch of generators.resultsListGenerator: the response object
\* itself is handed to HydroShareHTTPException.
resultsListGenerator_raise(r, url, params) ==
    IF r.status_code = 403 THEN HydroShareNotAuthorized(Tuple(<<"GET", url>>))
    ELSE IF r.status_code = 404 THEN HydroShareNotFound(Tuple(<<url>>))
    ELSE HydroShareHTTPException(r)

GenIdle == [impl |-> None, url |-> << >>, params |-> None, buf |-> << >>,
            next |-> Null(<< >>)]
BagIdle == [pid |-> None, wait |-> FALSE, task_id |-> 0, destination |-> None, unzip |-> FALSE]


Requests(l) == SelectSeq(l, LAMBDA e : e.ev = "request")
Sleeps(l) == SelectSeq(l, LAMBDA e : e.ev = "sleep")

\* The generator raises e: the exception reaches the consumer, the generator is finished.
GenRaise(e) ==
    /\ result' = Raise(e)
    /\ pc' = "gen_done"
    /\ UNCHANGED <<gen, yielded>>

\* Mutant of GenPage: a missing results field is read as an empty list.
GenPage_DefaultsResults(url) ==
    /\ Len(Requests(log)) < MaxPages
    /\ \E r \in PageResponses, t \in TransportOutcomes(hs, net) :
        LET rq == _request(hs, net, "GET", url, gen.params, t, r)
        IN  /\ hs' = rq.self
            /\ net' = rq.net
            /\ log' = Append(log, rq.event)
            /\ IF rq.raised THEN GenRaise(rq.exc)
               ELSE IF r.status_code # 200
               THEN IF gen.impl = "_getResultsListGenerator"
                    THEN GenRaise(_getResultsListGenerator_raise(r, url, gen.params))
                    ELSE GenRaise(resultsListGenerator_raise(r, url, gen.params))
               ELSE /\ gen' = [gen EXCEPT !.buf = r.results.v, !.next = r.next]
                    /\ pc' = "gen_loop"
                    /\ UNCHANGED <<result, yielded>>
    /\ UNCHANGED <<op, bag, env>>

\* GET one page at url and take in its envelope (request, status check,
\* res = r.json(), results = res['results']).
GenPage(url) ==
    /\ Len(Requests(log)) < MaxPages
    /\ \E r \in PageResponses, t \in TransportOutcomes(hs, net) :
        LET rq == _request(hs, net, "GET", url, gen.params, t, r)
        IN  /\ hs' = rq.self
            /\ net' = rq.net
            /\ log' = Append(log, rq.event)
            /\ IF rq.raised THEN GenRaise(rq.exc)
               ELSE IF r.status_code # 200
               THEN IF gen.impl = "_getResultsListGenerator"
                    THEN GenRaise(_getResultsListGenerator_raise(r, url, gen.params))
                    ELSE GenRaise(resultsListGenerator_raise(r, url, gen.params))
               ELSE IF r.results.tag = "missing" THEN GenRaise(KeyError("results"))
               ELSE /\ gen' = [gen EXCEPT !.buf = r.results.v, !.next = r.next]
                    /\ pc' = "gen_loop"
                    /\ UNCHANGED <<result, yielded>>
    /\ UNCHANGED <<op, bag, env>>

\* Calling the generator function builds the generator object; none of its body runs.
NewGenerator(name, args, impl, url, params) ==
    /\ pc = "idle"
    /\ op' = [name |-> name, args |-> args]
    /\ gen' = [GenIdle EXCEPT !.impl = impl, !.url = url, !.params = params]
    /\ pc' = "gen_created"
    /\ log' = << >>
    /\ yielded' = << >>
    /\ result' = Pending
    /\ bag' = BagIdle
    /\ UNCHANGED <<hs, net, env>>


GetResourceList ==
    \E params \in {"{creator: bmiles}"} :
        NewGenerator("getResourceList", <<params>>, "_getResultsListGenerator",
                     hs.url_base \o <<"/resource/">>, params)

GetResourceFileList ==
    \E pid \in Pids :
        NewGenerator("getResourceFileList", <<pid>>, "_getResultsListGenerator",
                     hs.url_base \o <<"/resource/", pid, "/files/">>, None)

\* endpoints.resources.ResourceList: the module-level generator function.
ResourceList ==
    \E params \in {"{creator: bmiles}"} :
        NewGenerator("ResourceList", <<params>>, "resultsListGenerator",
                     hs.url_base \o <<"/resource/">>, params)

\* The consumer asks for the next item: the generator body starts or resumes.
GenNext ==
    /\ pc \in {"gen_created", "gen_suspended"}
    /\ pc' = IF pc = "gen_created" THEN "gen_first" ELSE "gen_loop"
    /\ UNCHANGED <<hs, net, op, log, result, gen, yielded, bag, env>>

\* The first page.
GenFirstPage ==
    /\ pc = "gen_first"
    /\ GenPage(gen.url)

\* Mutant of GenYield: after an item is yielded the rest of the page is lost.
GenYield_DropsRest ==
    /\ pc = "gen_loop"
    /\ gen.buf # << >>
    /\ yielded' = Append(yielded, Head(gen.buf))
    /\ gen' = [gen EXCEPT !.buf = << >>]
    /\ pc' = "gen_suspended"
    /\ UNCHANGED <<hs, net, op, log, result, bag, env>>

\* for item in results: yield item
GenYield ==
    /\ pc = "gen_loop"
    /\ gen.buf # << >>
    /\ yielded' = Append(yielded, Head(gen.buf))
    /\ gen' = [gen EXCEPT !.buf = Tail(gen.buf)]
    /\ pc' = "gen_suspended"
    /\ UNCHANGED <<hs, net, op, log, result, bag, env>>

\* Mutant of GenStop: a null or empty `next` fails like an absent one.
GenStop_RaisesOnEmpty ==
    /\ pc = "gen_loop"
    /\ gen.buf = << >>
    /\ ~Truthy(gen.next)
    /\ result' = Raise(KeyError("next"))
    /\ pc' = "gen_done"
    /\ UNCHANGED <<hs, net, op, log, gen, yielded, bag, env>>

\* while res['next'] evaluates false (or 'next' is absent): the generator ends.
GenStop ==
    /\ pc = "gen_loop"
    /\ gen.buf = << >>
    /\ ~Truthy(gen.next)
    /\ IF gen.next.tag = "missing"
       THEN result' = Raise(KeyError("next"))
       ELSE result' = Return("StopIteration")
    /\ pc' = "gen_done"
    /\ UNCHANGED <<hs, net, op, log, gen, yielded, bag, env>>

\* Mutant of NextUrl: every "http://" of the URL is replaced.
NextUrl_ReplacesAll(self, next_url) ==
    IF self.use_https
    THEN [k \in 1..Len(next_url) |-> IF next_url[k] = "http://" THEN "https://" ELSE next_url[k]]
    ELSE next_url

\* next_url = res['next']; if self.use_https: next_url.replace('http://', 'https://', 1)
NextUrl(self, next_url) ==
    IF self.use_https THEN ReplaceFirst(next_url, "http://", "https://") ELSE next_url

\* Mutant of GenNextPage: the next page is fetched before the page in hand is
\* used up.
GenNextPage_Prefetches ==
    /\ pc = "gen_loop"
    /\ Truthy(gen.next)
    /\ GenPage(NextUrl(hs, gen.next.v))

\* while res['next'] evaluates true: follow it.
GenNextPage ==
    /\ pc = "gen_loop"
    /\ gen.buf = << >>
    /\ Truthy(gen.next)
    /\ GenPage(NextUrl(hs, gen.next.v))

\* The consumer asks a generator that has returned or raised for one more
\* item: StopIteration, none of the body runs again.
GenNextAfterEnd ==
    /\ pc = "gen_done"
    /\ result' = Return("StopIteration")
    /\ pc' = "gen_exhausted"
    /\ UNCHANGED <<hs, net, op, log, gen, yielded, bag, env>>

\* The caller has the outcome of the finished call (or drops a generator,
\* finished or not) and is free to make the next call.
Continue ==
    /\ pc \in {"done", "gen_created", "gen_suspended", "gen_done", "gen_exhausted"}
    /\ pc' = "idle"
    /\ op' = [name |-> None, args |-> << >>]
    /\ log' = << >>
    /\ result' = Pending
    /\ gen' = GenIdle
    /\ yielded' = << >>
    /\ bag' = BagIdle
    /\ UNCHANGED <<hs, net, env>>

-----------------------------------------------------------------------------
(* Archive (bag) retrieval with readiness polling *)


\* Responses to the archive GET; headers and body matter only with status 200.
BagResponses ==
    [py : {"Response"}, status_code : {200},
     ctype : {"application/json", "text/plain", "application/zip"}, content : Bodies]
    \cup [py : {"Response"}, status_code : StatusCodes \ {200},
          ctype : {"text/plain"}, content : {<< >>}]

\* json.loads of a readiness descriptor {bag_status, task_id}: two bytes encode
\* it (first byte 0: "Not ready"); any other body is not JSON.
BagJson(content) ==
    IF Len(content) = 2
    THEN [ok |-> TRUE, bag_status |-> IF content[1] = 0 THEN "Not ready" ELSE "Ready",
          task_id |-> content[2]]
    ELSE [ok |-> FALSE, bag_status |-> None, task_id |-> 0]

\* Responses to the task-status GET (the status code is not looked at).
TaskResponses ==
    [py : {"Response"}, status_code : {200}, content : {<< >>, <<0>>, <<1>>}]
    \cup [py : {"Response"}, status_code : {404}, content : {<< >>, <<1>>}]

\* json.loads of a task-status body {status}: one byte, 1 for true.
TaskJson(content) ==
    IF Len(content) = 1 THEN [ok |-> TRUE, status |-> content[1] = 1]
    ELSE [ok |-> FALSE, status |-> FALSE]

SleepEvent(secs) == [ev |-> "sleep", secs |-> secs]

\* The call ends with outcome res.
BagFinish(res) ==
    /\ result' = res
    /\ pc' = "done"
    /\ UNCHANGED bag

\* getResource(pid, destination=None, wait_for_bag_creation): enters _getBagStream.
GetResource ==
    /\ pc = "idle"
    /\ \E pid \in Pids, wait \in BOOLEAN :
        /\ op' = [name |-> "getResource", args |-> <<pid, wait>>]
        /\ bag' = [BagIdle EXCEPT !.pid = pid, !.wait = wait]
    /\ pc' = "bag_get"
    /\ log' = << >>
    /\ result' = Pending
    /\ gen' = GenIdle
    /\ yielded' = << >>
    /\ UNCHANGED <<hs, net, env>>

\* Outcomes of one _getBagStream frame.
BagRaise(e) == [kind |-> "raise", exc |-> e, value |-> << >>, task_id |-> 0]
BagReturn(v) == [kind |-> "return", exc |-> None, value |-> v, task_id |-> 0]
\* Mutant of BagPoll: the task_id of the response is not taken over.
BagPoll_DropsTaskId(task_id) == [kind |-> "poll", exc |-> None, value |-> << >>, task_id |-> 0]
BagPoll(task_id) == [kind |-> "poll", exc |-> None, value |-> << >>, task_id |-> task_id]

\* r.status_code != 200
BagStatusError(r, pid, bag_url) ==
    IF r.status_code = 403 THEN HydroShareNotAuthorized(Tuple(<<"GET", bag_url>>))
    ELSE IF r.status_code = 404 THEN HydroShareNotFound(Tuple(<<pid>>))
    ELSE HydroShareHTTPException(Tuple(<<bag_url, "GET", r.status_code>>))

\* Mutant of BagNotReady: the poll loop is entered whatever the caller asked.
BagNotReady_AlwaysPolls(content, wait_for_bag_creation) == BagPoll(content.task_id)

\* content['bag_status'] == "Not ready": wait in the poll loop, or give up.
BagNotReady(content, wait_for_bag_creation) ==
    IF wait_for_bag_creation THEN BagPoll(content.task_id)
    ELSE BagRaise(HydroShareBagNotReadyException("Please try later"))

\* The application/json branch; a descriptor whose bag_status is not
\* "Not ready" leaves the branch and reaches the final return.
BagJsonBranch(r, wait_for_bag_creation) ==
    LET content == BagJson(r.content)
    IN  IF ~content.ok THEN BagRaise(ValueError)
        ELSE IF content.bag_status = "Not ready"
        THEN BagNotReady(content, wait_for_bag_creation)
        ELSE BagReturn(iter_content(r.content, STREAM_CHUNK_SIZE))

\* Mutant of BagTextBranch: the text body is handed out as the archive.
BagTextBranch_ReturnsStream(r) == BagReturn(iter_content(r.content, STREAM_CHUNK_SIZE))

\* The text/plain branch: the body is an error message.
BagTextBranch(r) == BagRaise(HydroShareException(r.content))

\* What _getBagStream does with the response to the archive GET.
BagStream(r, pid, bag_url, wait_for_bag_creation) ==
    IF r.status_code # 200 THEN BagRaise(BagStatusError(r, pid, bag_url))
    ELSE IF r.ctype = "application/json" THEN BagJsonBranch(r, wait_for_bag_creation)
    ELSE IF r.ctype = "text/plain" THEN BagTextBranch(r)
    ELSE BagReturn(iter_content(r.content, STREAM_CHUNK_SIZE))

BagUrl(self, pid) == self.url_base \o <<"/resource/", pid, "/">>

TaskStatusUrl(self, task_id) == self.url_base \o <<"/taskstatus/", task_id, "/">>

\* Mutant of AfterPoll: the loop is left after one poll, ready or not.
AfterPoll_OnePoll(status) == "bag_get"

\* while not status: a true status re-enters _getBagStream, a false one loops.
AfterPoll(status) == IF status THEN "bag_get" ELSE "bag_poll"

\* One iteration of the poll loop: sleep, _getTaskStatus, and on a true status
\* the recursive _getBagStream call.
PollTaskStatus ==
    /\ pc = "bag_poll"
    /\ Len(Sleeps(log)) < MaxPolls
    /\ \E r \in TaskResponses, t \in TransportOutcomes(hs, net) :
        LET task_status_url == TaskStatusUrl(hs, bag.task_id)
            rq == _request(hs, net, "GET", task_status_url, None, t, r)
            response_data == TaskJson(r.content)
        IN  /\ hs' = rq.self
            /\ net' = rq.net
            /\ log' = log \o <<SleepEvent(3), rq.event>>
            /\ IF rq.raised THEN BagFinish(Raise(rq.exc))
               ELSE IF ~response_data.ok THEN BagFinish(Raise(ValueError))
               ELSE /\ pc' = AfterPoll(response_data.status)
                    /\ UNCHANGED <<result, bag>>
    /\ UNCHANGED <<op, gen, yielded, env>>

-----------------------------------------------------------------------------
(* Storing the archive: getResource with a destination *)

\* destination arguments: the default, an empty string, a writable directory,
\* a path that is no directory, a directory without write permission.
Destinations == {None, "", "dest", "nodir", "readonly"}
isdir(path) == path \in {"dest", "readonly"}
access_W_OK(path) == path = "dest"

\* Names tempfile.mkdtemp() can hand out.
TempDirs == {"tmp1", "tmp2"}

\* Archive bodies served to a storing call: zip archives (first byte 1, the
\* rest is the packed tree) and bodies zipfile rejects.
IsZip(content) == content # << >> /\ content[1] = 1
Unzip(content) == Tail(content)
StoreResponses ==
    {r \in BagResponses : r.status_code # 200 \/ r.content \in {<< >>, <<0>>, <<1>>, <<1, 0>>}}

FsEvent(ev, path) == [ev |-> ev, path |-> path]
WriteEvent(path, chunk) == [ev |-> "write", path |-> path, data |-> chunk]
ExtractEvent(src, dirname, ok) == [ev |-> "extractall", path |-> src, dest |-> dirname, ok |-> ok]

\* f with the file at path holding content.
PutFile(f, path, content) ==
    [q \in DOMAIN f \cup {path} |-> IF q = path THEN content ELSE f[q]]

\* shutil.rmtree(dir): the directory and the files below it are gone.
rmtree(f, dir) ==
    [f EXCEPT !.tmp = @ \ {dir},
              !.files = [q \in {x \in DOMAIN f.files : x[1] # dir} |-> f.files[q]]]

\* Mutant of ExtractAndCleanUp: the temporary directory is removed only when
\* the extraction succeeded.
ExtractAndCleanUp_KeepsOnFailure(f, pid, destination, tempdir, filepath) ==
    LET dirname == <<destination, pid>>
        ok == IsZip(f.files[filepath])
    IN  IF ok
        THEN [fs |-> rmtree([f EXCEPT !.trees = PutFile(@, dirname, Unzip(f.files[filepath]))],
                            tempdir),
              events |-> <<ExtractEvent(filepath, dirname, ok), FsEvent("rmtree", tempdir)>>]
        ELSE [fs |-> f, events |-> <<ExtractEvent(filepath, dirname, ok)>>]

\* The try/except/finally of the unzip branch once the archive is at filepath:
\* the extraction into destination/pid, whose failure is printed, and the
\* removal of the temporary directory.
ExtractAndCleanUp(f, pid, destination, tempdir, filepath) ==
    LET dirname == <<destination, pid>>
        ok == IsZip(f.files[filepath])
        extracted == IF ok THEN [f EXCEPT !.trees = PutFile(@, dirname, Unzip(f.files[filepath]))]
                     ELSE f
    IN  [fs |-> rmtree(extracted, tempdir),
         events |-> <<ExtractEvent(filepath, dirname, ok), FsEvent("rmtree", tempdir)>>]

\* Mutant of Download: the file is opened for appending.
Download_Appends(f, filepath, stream, delivered) ==
    [fs |-> [f EXCEPT !.files =
                PutFile(@, filepath,
                        (IF filepath \in DOMAIN f.files THEN f.files[filepath] ELSE << >>)
                        \o Concat(SubSeq(stream, 1, delivered)))],
     events |-> <<FsEvent("open", filepath)>>
                \o [i \in 1..delivered |-> WriteEvent(filepath, stream[i])]]

\* with open(filepath, 'wb') as fd: for chunk in stream: fd.write(chunk).
\* The first `delivered` chunks of the stream arrive.
Download(f, filepath, stream, delivered) ==
    [fs |-> [f EXCEPT !.files = PutFile(@, filepath, Concat(SubSeq(stream, 1, delivered)))],
     events |-> <<FsEvent("open", filepath)>>
                \o [i \in 1..delivered |-> WriteEvent(filepath, stream[i])]]

\* Mutant of _storeBagOnFilesystem: the temporary directory is removed when
\* the stream raises, too.
_storeBagOnFilesystem_CleansUpOnError(f, stream, pid, destination, unzip, delivered, broken) ==
    IF ~isdir(destination)
    THEN [fs |-> f, events |-> << >>,
          result |-> Raise(HydroShareArgumentException("is not a directory"))]
    ELSE IF ~access_W_OK(destination)
    THEN [fs |-> f, events |-> << >>,
          result |-> Raise(HydroShareArgumentException("You do not have write permissions"))]
    ELSE LET tempdir == IF unzip THEN CHOOSE dir \in TempDirs \ f.tmp : TRUE ELSE None
             made == IF unzip THEN [f EXCEPT !.tmp = @ \cup {tempdir}] ELSE f
             mkdtemp == IF unzip THEN <<FsEvent("mkdtemp", tempdir)>> ELSE << >>
             filepath == IF unzip THEN <<tempdir, pid, ".zip">>
                         ELSE <<destination, pid, ".zip">>
             unpack(d, x) == [fs |-> x.fs, events |-> mkdtemp \o d.events \o x.events,
                              result |-> Return(None)]
             finish(d) ==
                 IF broken
                 THEN [fs |-> IF unzip THEN rmtree(d.fs, tempdir) ELSE d.fs,
                       events |-> mkdtemp \o d.events \o <<FsEvent("stream raised", filepath)>>,
                       result |-> Raise(ConnectionError)]
                 ELSE IF unzip
                 THEN Bind(ExtractAndCleanUp(d.fs, pid, destination, tempdir, filepath),
                           LAMBDA x : unpack(d, x))
                 ELSE [fs |-> d.fs, events |-> d.events, result |-> Return(None)]
         IN  Bind(Download(made, filepath, stream, delivered), finish)

\* _storeBagOnFilesystem(stream, pid, destination, unzip): [fs, events, result].
\* The stream hands over `delivered` chunks and then, if broken, raises.
_storeBagOnFilesystem(f, stream, pid, destination, unzip, delivered, broken) ==
    IF ~isdir(destination)
    THEN [fs |-> f, events |-> << >>,
          result |-> Raise(HydroShareArgumentException("is not a directory"))]
    ELSE IF ~access_W_OK(destination)
    THEN [fs |-> f, events |-> << >>,
          result |-> Raise(HydroShareArgumentException("You do not have write permissions"))]
    ELSE LET tempdir == IF unzip THEN CHOOSE dir \in TempDirs \ f.tmp : TRUE ELSE None
             made == IF unzip THEN [f EXCEPT !.tmp = @ \cup {tempdir}] ELSE f
             mkdtemp == IF unzip THEN <<FsEvent("mkdtemp", tempdir)>> ELSE << >>
             filepath == IF unzip THEN <<tempdir, pid, ".zip">>
                         ELSE <<destination, pid, ".zip">>
             unpack(d, x) == [fs |-> x.fs, events |-> mkdtemp \o d.events \o x.events,
                              result |-> Return(None)]
             finish(d) ==
                 IF broken
                 THEN [fs |-> d.fs,
                       events |-> mkdtemp \o d.events \o <<FsEvent("stream raised", filepath)>>,
                       result |-> Raise(ConnectionError)]
                 ELSE IF unzip
                 THEN Bind(ExtractAndCleanUp(d.fs, pid, destination, tempdir, filepath),
                           LAMBDA x : unpack(d, x))
                 ELSE [fs |-> d.fs, events |-> d.events, result |-> Return(None)]
         IN  Bind(Download(made, filepath, stream, delivered), finish)

\* if destination: (a python string is true unless empty)
IsGiven(destination) == destination \notin {None, ""}

\* Mutant of getResourceFile: the destination is checked when the response is
\* in hand.
getResourceFile_ChecksLate(self, n, f, pid, filename, destination, r, t, delivered, broken) ==
    LET url == self.url_base \o <<"/resource/", pid, "/files/", filename>>
        out(rq, filesystem, events, res) ==
            [self |-> rq.self, net |-> rq.net, fs |-> filesystem,
             log |-> <<rq.event>> \o events, result |-> res]
        filepath == <<destination, filename>>
        written(rq, d) ==
            IF broken
            THEN out(rq, d.fs, d.events \o <<FsEvent("stream raised", filepath)>>,
                     Raise(ConnectionError))
            ELSE out(rq, d.fs, d.events, Return(filepath))
        answer(rq) ==
            IF rq.raised THEN out(rq, f, << >>, Raise(rq.exc))
            ELSE IF r.status_code # 200
            THEN IF r.status_code = 403
                 THEN out(rq, f, << >>, Raise(HydroShareNotAuthorized(Tuple(<<"GET", url>>))))
                 ELSE IF r.status_code = 404
                 THEN out(rq, f, << >>, Raise(HydroShareNotFound(Tuple(<<pid, filename>>))))
                 ELSE out(rq, f, << >>,
                          Raise(HydroShareHTTPException(Tuple(<<url, "GET", r.status_code>>))))
            ELSE IF destination = None
            THEN out(rq, f, << >>, Return(iter_content(r.content, STREAM_CHUNK_SIZE)))
            ELSE Bind(Download(f, filepath, iter_content(r.content, STREAM_CHUNK_SIZE),
                               delivered),
                      LAMBDA d : written(rq, d))
        late(rq) ==
            IF rq.raised THEN answer(rq)
            ELSE IF IsGiven(destination) /\ ~isdir(destination)
            THEN out(rq, f, << >>, Raise(HydroShareArgumentException("is not a directory")))
            ELSE IF IsGiven(destination) /\ ~access_W_OK(destination)
            THEN out(rq, f, << >>,
                     Raise(HydroShareArgumentException("You do not have write permissions")))
            ELSE answer(rq)
    IN  Bind(_request(self, n, "GET", url, None, t, r), late)

\* getResourceFile(pid, filename, destination): [self, net, fs, log, result].
\* With a destination the stream is written to destination/filename; it hands
\* over `delivered` chunks and then, if broken, raises.
getResourceFile(self, n, f, pid, filename, destination, r, t, delivered, broken) ==
    LET url == self.url_base \o <<"/resource/", pid, "/files/", filename>>
        refused(e) == [self |-> self, net |-> n, fs |-> f, log |-> << >>, result |-> Raise(e)]
        out(rq, filesystem, events, res) ==
            [self |-> rq.self, net |-> rq.net, fs |-> filesystem,
             log |-> <<rq.event>> \o events, result |-> res]
        filepath == <<destination, filename>>
        written(rq, d) ==
            IF broken
            THEN out(rq, d.fs, d.events \o <<FsEvent("stream raised", filepath)>>,
                     Raise(ConnectionError))
            ELSE out(rq, d.fs, d.events, Return(filepath))
        answer(rq) ==
            IF rq.raised THEN out(rq, f, << >>, Raise(rq.exc))
            ELSE IF r.status_code # 200
            THEN IF r.status_code = 403
                 THEN out(rq, f, << >>, Raise(HydroShareNotAuthorized(Tuple(<<"GET", url>>))))
                 ELSE IF r.status_code = 404
                 THEN out(rq, f, << >>, Raise(HydroShareNotFound(Tuple(<<pid, filename>>))))
                 ELSE out(rq, f, << >>,
                          Raise(HydroShareHTTPException(Tuple(<<url, "GET", r.status_code>>))))
            ELSE IF destination = None
            THEN out(rq, f, << >>, Return(iter_content(r.content, STREAM_CHUNK_SIZE)))
            ELSE Bind(Download(f, filepath, iter_content(r.content, STREAM_CHUNK_SIZE),
                               delivered),
                      LAMBDA d : written(rq, d))
    IN  IF IsGiven(destination) /\ ~isdir(destination)
        THEN refused(HydroShareArgumentException("is not a directory"))
        ELSE IF IsGiven(destination) /\ ~access_W_OK(destination)
        THEN refused(HydroShareArgumentException("You do not have write permissions"))
        ELSE Bind(_request(self, n, "GET", url, None, t, r), answer)

\* getResource(pid, destination, unzip, wait_for_bag_creation=False) as one
\* step (without waiting the call makes a single request):
\* [self, net, fs, log, result].
getResource(self, n, f, pid, destination, unzip, r, t, delivered, broken) ==
    LET bag_url == BagUrl(self, pid)
        out(rq, filesystem, events, res) ==
            [self |-> rq.self, net |-> rq.net, fs |-> filesystem,
             log |-> <<rq.event>> \o events, result |-> res]
        store(rq, st) == out(rq, st.fs, st.events, st.result)
        deliver(rq, o) ==
            IF o.kind = "raise" THEN out(rq, f, << >>, Raise(o.exc))
            ELSE IF IsGiven(destination)
            THEN Bind(_storeBagOnFilesystem(f, o.value, pid, destination, unzip,
                                            delivered, broken),
                      LAMBDA st : store(rq, st))
            ELSE out(rq, f, << >>, Return(o.value))
        answer(rq) ==
            IF rq.raised THEN out(rq, f, << >>, Raise(rq.exc))
            ELSE Bind(BagStream(r, pid, bag_url, FALSE), LAMBDA o : deliver(rq, o))
    IN  Bind(_request(self, n, "GET", bag_url, None, t, r), answer)

\* _getBagStream up to its return, its raise, or the entry of the poll loop;
\* on its return getResource stores the stream if it was given a destination,
\* and hands it to the caller if not.
_getBagStream ==
    /\ pc = "bag_get"
    /\ \E r \in BagResponses, t \in TransportOutcomes(hs, net) :
        LET bag_url == BagUrl(hs, bag.pid)
            rq == _request(hs, net, "GET", bag_url, None, t, r)
            o == BagStream(r, bag.pid, bag_url, bag.wait)
        IN  /\ hs' = rq.self
            /\ net' = rq.net
            /\ IF rq.raised \/ o.kind # "return" \/ ~IsGiven(bag.destination)
               THEN /\ log' = Append(log, rq.event)
                    /\ fs' = fs
                    /\ IF rq.raised THEN BagFinish(Raise(rq.exc))
                       ELSE IF o.kind = "raise" THEN BagFinish(Raise(o.exc))
                       ELSE IF o.kind = "return" THEN BagFinish(Return(o.value))
                       ELSE /\ bag' = [bag EXCEPT !.task_id = o.task_id]
                            /\ pc' = "bag_poll"
                            /\ UNCHANGED result
               ELSE \E broken \in BOOLEAN, delivered \in 0..Len(o.value) :
                    /\ ~broken => delivered = Len(o.value)
                    /\ (bag.unzip /\ access_W_OK(bag.destination)) => TempDirs \ fs.tmp # {}
                    /\ \E st \in {_storeBagOnFilesystem(fs, o.value, bag.pid, bag.destination,
                                                        bag.unzip, delivered, broken)} :
                        /\ fs' = st.fs
                        /\ log' = Append(log, rq.event) \o st.events
                        /\ BagFinish(st.result)
    /\ UNCHANGED <<op, gen, yielded, __debug__>>

\* getResource(pid, destination, wait_for_bag_creation=wait) with a destination
\* that _storeBagOnFilesystem refuses (unzip is left at its default, False):
\* enters _getBagStream.
GetResourceInto(wait) ==
    /\ pc = "idle"
    /\ \E destination \in {"nodir", "readonly"} :
        /\ op' = [name |-> "getResource", args |-> <<"p1", destination, FALSE, wait>>]
        /\ bag' = [BagIdle EXCEPT !.pid = "p1", !.wait = wait, !.destination = destination]
    /\ pc' = "bag_get"
    /\ log' = << >>
    /\ result' = Pending
    /\ gen' = GenIdle
    /\ yielded' = << >>
    /\ UNCHANGED <<hs, net, env>>

\* The chunks a storing call would be handed for response r.
StreamOf(r) ==
    IF BagStream(r, "p1", << >>, FALSE).kind = "return"
    THEN BagStream(r, "p1", << >>, FALSE).value ELSE << >>

GetResourceTo ==
    /\ pc = "idle"
    /\ \E destination \in Destinations, unzip \in BOOLEAN, r \in StoreResponses,
          t \in TransportOutcomes(hs, net), broken \in BOOLEAN :
        /\ unzip => TempDirs \ fs.tmp # {}
        /\ \E delivered \in 0..Len(StreamOf(r)) :
            /\ ~broken => delivered = Len(StreamOf(r))
            /\ \E o \in {getResource(hs, net, fs, "p1", destination, unzip, r, t,
                                      delivered, broken)} :
                /\ hs' = o.self
                /\ net' = o.net
                /\ fs' = o.fs
                /\ log' = o.log
                /\ result' = o.result
        /\ op' = [name |-> "getResource", args |-> <<"p1", destination, unzip, FALSE>>]
    /\ pc' = "done"
    /\ gen' = GenIdle
    /\ yielded' = << >>
    /\ bag' = BagIdle
    /\ UNCHANGED __debug__

-----------------------------------------------------------------------------
(* Calls that complete in one step *)

\* The call name(args) runs to completion with outcome o.
Call(name, args, o) ==
    /\ pc = "idle"
    /\ \E out \in {o} :
        /\ hs' = out.self
        /\ net' = out.net
        /\ log' = out.log
        /\ result' = out.result
    /\ op' = [name |-> name, args |-> args]
    /\ pc' = "done"
    /\ gen' = GenIdle
    /\ yielded' = << >>
    /\ bag' = BagIdle
    /\ UNCHANGED env

GetSystemMetadata ==
    \E pid \in Pids, r \in DocResponses, t \in TransportOutcomes(hs, net) :
        Call("getSystemMetadata", <<pid>>, getSystemMetadata(hs, net, pid, r, t))

GetScienceMetadataRDF ==
    \E pid \in Pids, r \in DocResponses, t \in TransportOutcomes(hs, net) :
        Call("getScienceMetadataRDF", <<pid>>, getScienceMetadataRDF(hs, net, pid, r, t))

GetScienceMetadata ==
    \E pid \in Pids, r \in DocResponses, t \in TransportOutcomes(hs, net) :
        Call("getScienceMetadata", <<pid>>, getScienceMetadata(hs, net, pid, r, t))

GetResourceMap ==
    \E pid \in Pids, r \in DocResponses, t \in TransportOutcomes(hs, net) :
        Call("getResourceMap", <<pid>>, getResourceMap(hs, net, pid, r, t))

GetResourceFile ==
    \E pid \in Pids, f \in {"f.txt"}, r \in FileResponses, t \in TransportOutcomes(hs, net) :
        Call("getResourceFile", <<pid, f>>,
             getResourceFile(hs, net, fs, pid, f, None, r, t, 0, FALSE))

\* getResourceFile(pid, filename, destination) with a destination that the
\* call refuses.
GetResourceFileTo ==
    /\ pc = "idle"
    /\ \E destination \in {"nodir", "readonly"},
          r \in {x \in FileResponses : x.content = <<1>>},
          t \in TransportOutcomes(hs, net), broken \in BOOLEAN :
        /\ \E delivered \in 0..1 :
            /\ ~broken => delivered = 1
            /\ \E o \in {getResourceFile(hs, net, fs, "p1", "f.txt", destination, r, t,
                                          delivered, broken)} :
                /\ hs' = o.self
                /\ net' = o.net
                /\ fs' = o.fs
                /\ log' = o.log
                /\ result' = o.result
        /\ op' = [name |-> "getResourceFile", args |-> <<"p1", "f.txt", destination>>]
    /\ pc' = "done"
    /\ gen' = GenIdle
    /\ yielded' = << >>
    /\ bag' = BagIdle
    /\ UNCHANGED __debug__

GetResourceFolderContents ==
    \E pid \in Pids, r \in DocResponses, t \in TransportOutcomes(hs, net) :
        Call("getResourceFolderContents", <<pid, "dir">>,
             getResourceFolderContents(hs, net, pid, "dir", r, t))

GetResourceTypes ==
    \E r \in TypesResponses, t \in TransportOutcomes(hs, net) :
        Call("getResourceTypes", << >>, getResourceTypes(hs, net, r, t))

GetUserInfo ==
    \E r \in DocResponses, t \in TransportOutcomes(hs, net) :
        Call("getUserInfo", << >>, getUserInfo(hs, net, r, t))

\* createResource(rtype, "title", resource_file=..., resource_filename=...).
\* The types GET is answered with the types or with an error; with the resource
\* types cached no types GET is made: tr and t1 are not used.
CreateResourceWith(resource_file, resource_filename) ==
    /\ pc = "idle"
    /\ \E rtype \in ResourceTypeNames, r \in CreateResponses :
        IF hs._resource_types.is_none
        THEN \E tr \in {x \in TypesResponses : x.status_code \in {200, 500}}, t1 \in TransportOutcomes(hs, net) :
                \E rt \in {resource_types(hs, net, tr, t1)} :
                    \E t2 \in TransportOutcomes(rt.self, rt.net) :
                        Call("createResource", <<rtype, resource_file, resource_filename>>,
                             createResource(hs, net, rtype, "title", resource_file,
                                            resource_filename, tr, t1, r, t2))
        ELSE \E t2 \in TransportOutcomes(hs, net) :
                Call("createResource", <<rtype, resource_file, resource_filename>>,
                     createResource(hs, net, rtype, "title", resource_file,
                                    resource_filename, NoResponse,
                                    [first |-> Ok, fetch |-> TRUE, second |-> Ok], r, t2))

\* createResource without a file.
CreateResource ==
    CreateResourceWith([kind |-> "None", readable |-> FALSE, basename |-> None], None)

\* createResource with a file to upload.
CreateResourceWithFile ==
    \E resource_file \in {ResourcePath(TRUE), ResourcePath(FALSE),
                          [kind |-> "file", readable |-> TRUE, basename |-> None]},
       resource_filename \in {None, "g.txt"} :
        CreateResourceWith(resource_file, resource_filename)

-----------------------------------------------------------------------------
(* Operations that change a resource: each returns [self, net, log, result] *)

\* Response to a change of a resource: on success a JSON object that names the
\* resource; resource_id None stands for an object without that key.
IdResponses == [py : {"Response"}, status_code : StatusCodes, resource_id : Pids \cup {None}]


\* resource = r.json(); assert(resource['resource_id'] == pid);
\* return resource['resource_id'].  The assert statement exists only when
\* __debug__ is true.
SameResourceId(r, pid, debug) ==
    IF r.resource_id = None THEN Raise(KeyError("resource_id"))
    ELSE IF debug /\ r.resource_id # pid THEN Raise([type |-> "AssertionError"])
    ELSE Return(r.resource_id)

\* The status check shared by the four operations; ok is the status expected
\* and notfound the argument tuple of HydroShareNotFound.
ChangeAnswer(rq, r, pid, method, url, http_args, ok, notfound, debug) ==
    IF rq.raised THEN Outcome(rq, Raise(rq.exc))
    ELSE IF r.status_code # ok
    THEN IF r.status_code = 403
         THEN Outcome(rq, Raise(HydroShareNotAuthorized(Tuple(<<method, url>>))))
         ELSE IF r.status_code = 404
         THEN Outcome(rq, Raise(HydroShareNotFound(Tuple(notfound))))
         ELSE Outcome(rq, Raise(HydroShareHTTPException(Tuple(http_args))))
    ELSE Outcome(rq, SameResourceId(r, pid, debug))

deleteResource(self, n, pid, r, t, debug) ==
    LET url == self.url_base \o <<"/resource/", pid, "/">>
        answer(rq) == ChangeAnswer(rq, r, pid, "DELETE", url,
                                   <<url, "DELETE", r.status_code>>, 200, <<pid>>, debug)
    IN  Bind(_request(self, n, "DELETE", url, None, t, r), answer)

setAccessRules(self, n, pid, public, r, t, debug) ==
    LET url == self.url_base \o <<"/resource/accessRules/", pid, "/">>
        params == [public |-> public]
        answer(rq) == ChangeAnswer(rq, r, pid, "PUT", url,
                                   <<url, "PUT", r.status_code, params>>, 200, <<pid>>, debug)
    IN  Bind(_request(self, n, "PUT", url, params, t, r), answer)

addResourceFile(self, n, pid, resource_file, resource_filename, r, t, debug) ==
    LET url == self.url_base \o <<"/resource/", pid, "/files/">>
        answer(rq) == ChangeAnswer(rq, r, pid, "POST", url,
                                   <<url, "POST", r.status_code>>, 201, <<pid>>, debug)
        upload(f) ==
            IF f.raised
            THEN [self |-> self, net |-> n, log |-> << >>, result |-> Raise(f.exc)]
            ELSE Bind(_request(self, n, "POST", url, [file |-> f.fname], t, r), answer)
    IN  Bind(_prepareFileForUpload(resource_file, resource_filename), upload)

deleteResourceFile(self, n, pid, filename, r, t, debug) ==
    LET url == self.url_base \o <<"/resource/", pid, "/files/", filename>>
        answer(rq) == ChangeAnswer(rq, r, pid, "DELETE", url,
                                   <<url, "DELETE", r.status_code>>, 200,
                                   <<pid, filename>>, debug)
    IN  Bind(_request(self, n, "DELETE", url, None, t, r), answer)

\* Responses to the two PUT operations that return the parsed body.
PutResponses ==
    [py : {"Response"}, status_code : StatusCodes \cup {202}, content : {"{a}", "<html>"}]

\* updateScienceMetadata(pid, metadata): 202 is the status expected.
updateScienceMetadata(self, n, pid, metadata, r, t) ==
    LET url == self.url_base \o <<"/resource/", pid, "/scimeta/elements/">>
        answer(rq) ==
            IF rq.raised THEN Outcome(rq, Raise(rq.exc))
            ELSE IF r.status_code # 202
            THEN IF r.status_code = 403
                 THEN Outcome(rq, Raise(HydroShareNotAuthorized(Tuple(<<"PUT", url>>))))
                 ELSE IF r.status_code = 404
                 THEN Outcome(rq, Raise(HydroShareNotFound(Tuple(<<pid>>))))
                 ELSE Outcome(rq, Raise(HydroShareHTTPException(
                                            Tuple(<<url, "PUT", r.status_code, metadata>>))))
            ELSE Outcome(rq, json(r))
    IN  Bind(_request(self, n, "PUT", url, None, t, r), answer)

\* Mutant of createResourceFolder: 200 is taken for the status expected.
createResourceFolder_Expects200(self, n, pid, pathname, r, t) ==
    LET url == self.url_base \o <<"/resource/", pid, "/folders/", pathname>>
        answer(rq) ==
            IF rq.raised THEN Outcome(rq, Raise(rq.exc))
            ELSE IF r.status_code # 200
            THEN Outcome(rq, Raise(HydroShareHTTPException(Tuple(<<url, "PUT", r.status_code>>))))
            ELSE Outcome(rq, json(r))
    IN  Bind(_request(self, n, "PUT", url, None, t, r), answer)

\* createResourceFolder(pid, pathname): 201 is the status expected.
createResourceFolder(self, n, pid, pathname, r, t) ==
    LET url == self.url_base \o <<"/resource/", pid, "/folders/", pathname>>
        answer(rq) ==
            IF rq.raised THEN Outcome(rq, Raise(rq.exc))
            ELSE IF r.status_code # 201
            THEN IF r.status_code = 403
                 THEN Outcome(rq, Raise(HydroShareNotAuthorized(Tuple(<<"PUT", url>>))))
                 ELSE IF r.status_code = 404
                 THEN Outcome(rq, Raise(HydroShareNotFound(Tuple(<<pid>>))))
                 ELSE Outcome(rq, Raise(HydroShareHTTPException(
                                            Tuple(<<url, "PUT", r.status_code>>))))
            ELSE Outcome(rq, json(r))
    IN  Bind(_request(self, n, "PUT", url, None, t, r), answer)

UpdateScienceMetadata ==
    \E pid \in Pids, metadata \in {[title |-> "A new title"]}, r \in PutResponses,
       t \in TransportOutcomes(hs, net) :
        Call("updateScienceMetadata", <<pid, metadata>>,
             updateScienceMetadata(hs, net, pid, metadata, r, t))

CreateResourceFolder ==
    \E pid \in Pids, pathname \in {"model/initial"}, r \in PutResponses,
       t \in TransportOutcomes(hs, net) :
        Call("createResourceFolder", <<pid, pathname>>,
             createResourceFolder(hs, net, pid, pathname, r, t))

DeleteResource ==
    \E pid \in Pids, r \in IdResponses, t \in TransportOutcomes(hs, net) :
        Call("deleteResource", <<pid>>, deleteResource(hs, net, pid, r, t, __debug__))

SetAccessRules ==
    \E pid \in Pids, public \in BOOLEAN, r \in IdResponses, t \in TransportOutcomes(hs, net) :
        Call("setAccessRules", <<pid, public>>,
             setAccessRules(hs, net, pid, public, r, t, __debug__))

AddResourceFile ==
    \E pid \in Pids, resource_file \in {ResourcePath(TRUE), ResourcePath(FALSE),
                         [kind |-> "file", readable |-> TRUE, basename |-> None]},
       resource_filename \in {None, "g.txt"},
       r \in IdResponses, t \in TransportOutcomes(hs, net) :
        Call("addResourceFile", <<pid, resource_file, resource_filename>>,
             addResourceFile(hs, net, pid, resource_file, resource_filename, r, t, __debug__))

DeleteResourceFile ==
    \E pid \in Pids, filename \in {"f.txt"}, r \in IdResponses,
       t \in TransportOutcomes(hs, net) :
        Call("deleteResourceFile", <<pid, filename>>,
             deleteResourceFile(hs, net, pid, filename, r, t, __debug__))

-----------------------------------------------------------------------------
(* The resource endpoint: ResourceEndpoint(hs, pid) and its sub-endpoints *)

EndpointResponses == [py : {"Response"}, status_code : StatusCodes, text : {"{a}", "<html>"}]

\* self.hs._request(method, url, None, data) followed by `return r`: the
\* response is handed to the caller whatever its status.  data is the payload
\* (a record of its fields), or [py |-> "None"] when the call passes none.
EndpointRequest(self, n, method, url, data, r, t) ==
    LET answer(rq) ==
            [self |-> rq.self, net |-> rq.net,
             log |-> <<rq.event @@ [data |-> data]>>,
             result |-> IF rq.raised THEN Raise(rq.exc) ELSE Return(r)]
    IN  Bind(_request(self, n, method, url, None, t, r), answer)

EndpointUrl(self, pid, tail) == self.url_base \o <<"/resource/", pid>> \o tail

\* ResourceEndpoint.copy / resource.functions.copy
copy(self, n, pid, r, t) ==
    EndpointRequest(self, n, "POST", EndpointUrl(self, pid, <<"/copy/">>), [py |-> "None"], r, t)

\* ResourceEndpoint.version / resource.functions.version
version(self, n, pid, r, t) ==
    EndpointRequest(self, n, "POST", EndpointUrl(self, pid, <<"/version/">>), [py |-> "None"], r, t)

\* ResourceEndpoint.flag(payload)
flag(self, n, pid, payload, r, t) ==
    EndpointRequest(self, n, "POST", EndpointUrl(self, pid, <<"/flag/">>), payload, r, t)

\* ResourceEndpoint.public(boolean)
public(self, n, pid, boolean, r, t) ==
    IF boolean THEN flag(self, n, pid, [flag |-> "make_public"], r, t)
    ELSE flag(self, n, pid, [flag |-> "make_private"], r, t)

\* ResourceEndpoint.discoverable(boolean)
discoverable(self, n, pid, boolean, r, t) ==
    IF boolean THEN flag(self, n, pid, [flag |-> "make_discoverable"], r, t)
    ELSE flag(self, n, pid, [flag |-> "make_not_discoverable"], r, t)

\* ResourceEndpoint.shareable(boolean)
shareable(self, n, pid, boolean, r, t) ==
    IF boolean THEN flag(self, n, pid, [flag |-> "make_shareable"], r, t)
    ELSE flag(self, n, pid, [flag |-> "make_not_shareable"], r, t)

\* ScimetaSubEndpoint.custom(payload): the POST carries no data.
custom(self, n, pid, payload, r, t) ==
    EndpointRequest(self, n, "POST", EndpointUrl(self, pid, <<"/scimeta/custom/">>), [py |-> "None"], r, t)

\* FunctionsSubEndpoint.move_or_rename(payload)
move_or_rename(self, n, pid, payload, r, t) ==
    EndpointRequest(self, n, "POST",
                    EndpointUrl(self, pid, <<"/functions/move-or-rename/">>), payload, r, t)

Copy ==
    \E pid \in Pids, r \in EndpointResponses, t \in TransportOutcomes(hs, net) :
        Call("copy", <<pid>>, copy(hs, net, pid, r, t))

Version ==
    \E pid \in Pids, r \in EndpointResponses, t \in TransportOutcomes(hs, net) :
        Call("version", <<pid>>, version(hs, net, pid, r, t))

Flag ==
    \E pid \in Pids, payload \in {[t |-> "make_public"], [t |-> "make_not_shareable"]}, r \in EndpointResponses,
       t \in TransportOutcomes(hs, net) :
        Call("flag", <<pid, payload>>, flag(hs, net, pid, payload, r, t))

Public ==
    \E pid \in Pids, boolean \in BOOLEAN, r \in EndpointResponses,
       t \in TransportOutcomes(hs, net) :
        Call("public", <<pid, boolean>>, public(hs, net, pid, boolean, r, t))

Discoverable ==
    \E pid \in Pids, boolean \in BOOLEAN, r \in EndpointResponses,
       t \in TransportOutcomes(hs, net) :
        Call("discoverable", <<pid, boolean>>, discoverable(hs, net, pid, boolean, r, t))

Shareable ==
    \E pid \in Pids, boolean \in BOOLEAN, r \in EndpointResponses,
       t \in TransportOutcomes(hs, net) :
        Call("shareable", <<pid, boolean>>, shareable(hs, net, pid, boolean, r, t))

ScimetaCustom ==
    \E pid \in Pids, payload \in {[weather |-> "sunny"], [weather |-> "rainy"]}, r \in EndpointResponses,
       t \in TransportOutcomes(hs, net) :
        Call("scimeta.custom", <<pid, payload>>, custom(hs, net, pid, payload, r, t))

FunctionsMoveOrRename ==
    \E pid \in Pids, payload \in {[source_path |-> "a", target_path |-> "b"]}, r \in EndpointResponses,
       t \in TransportOutcomes(hs, net) :
        Call("functions.move_or_rename", <<pid, payload>>,
             move_or_rename(hs, net, pid, payload, r, t))

-----------------------------------------------------------------------------
(* The client after construction *)

\* HydroShare.__init__ succeeded: the auth configurations that pass
\* _initializeSession, the first session installed, no resource types cached.
HydroShare(auth, use_https) ==
    [auth |-> auth, use_https |-> use_https, url_base |-> UrlBase(use_https),
     session |-> 1, _resource_types |-> [is_none |-> TRUE, value |-> {}]]

\* The auth objects a caller can pass: the four that pass _initializeSession
\* over https, OAuth2 without token and without a username or a password, and
\* an object that is neither HydroShareAuthBasic nor HydroShareAuthOAuth2.
AuthObjects ==
    {AuthNone, AuthBasic, AuthOAuth2Token, AuthOAuth2Password,
     [kind |-> "OAuth2", token |-> FALSE, username |-> FALSE, password |-> TRUE],
     [kind |-> "OAuth2", token |-> FALSE, username |-> TRUE, password |-> FALSE],
     [kind |-> "Other", token |-> FALSE, username |-> FALSE, password |-> FALSE]}

\* HydroShare.__init__(port=port, use_https=use_https, auth=auth) on the
\* default hostname.  `if port:` is false for None and for 0 alike, so port 0
\* stands for both.  n: the sessions made so far; fetch_ok: whether the token
\* fetch of the OAuth2 password grant succeeds.
__init__(auth, port, use_https, n, fetch_ok) ==
    LET host == IF port = 0 THEN "www.hydroshare.org/hsapi"
                ELSE "www.hydroshare.org:8080/hsapi"
        self == [auth |-> auth, use_https |-> use_https,
                 url_base |-> <<Scheme(use_https), host>>,
                 session |-> 0, _resource_types |-> [is_none |-> TRUE, value |-> {}]]
        finish(i) ==
            [self |-> i.self, net |-> i.net,
             result |-> IF i.raised THEN Raise(i.exc) ELSE Return(None)]
    IN  IF port # 0 /\ (port < 0 \/ port > 65535)
        THEN [self |-> [self EXCEPT !.url_base = << >>], net |-> n,
              result |-> Raise(HydroShareException("Port number is illegal."))]
        ELSE Bind(_initializeSession(self, n, fetch_ok), finish)

\* hs = HydroShare(auth=auth, port=port, use_https=use_https)
Construct ==
    /\ pc = "new"
    /\ \E auth \in AuthObjects, port \in {0, 8080, 65536}, use_https \in BOOLEAN,
          fetch_ok \in BOOLEAN :
        /\ (auth.kind = "OAuth2" /\ use_https /\ ~auth.token
                /\ auth.username /\ auth.password) \/ fetch_ok
        /\ \E out \in {__init__(auth, port, use_https, net, fetch_ok)} :
            /\ hs' = out.self
            /\ net' = out.net
            /\ result' = out.result
            /\ pc' = IF out.result.kind = "raise" THEN "init_failed" ELSE "idle"
        /\ op' = [name |-> "__init__", args |-> <<auth, port, use_https>>]
    /\ UNCHANGED <<log, gen, yielded, bag, env>>

\* The filesystem holds nothing the client wrote.
NoFiles == [files |-> [p \in {} |-> << >>], tmp |-> {}, trees |-> [p \in {} |-> << >>]]

\* A client constructed in an interpreter whose __debug__ is one of debug.
\* Only deleteResource, setAccessRules, addResourceFile and deleteResourceFile
\* hold an assert statement; no other operation reads __debug__.
Constructed(debug) ==
    /\ \E auth \in {AuthNone, AuthBasic, AuthOAuth2Token, AuthOAuth2Password},
          use_https \in BOOLEAN :
        /\ auth.kind # "None" => use_https
        /\ hs = HydroShare(auth, use_https)
    /\ net = [created |-> 1, closed |-> {}]
    /\ op = [name |-> None, args |-> << >>]
    /\ log = << >>
    /\ result = Pending
    /\ pc = "idle"
    /\ gen = GenIdle
    /\ yielded = << >>
    /\ bag = BagIdle
    /\ fs = NoFiles
    /\ __debug__ \in debug

Init == Constructed({TRUE})

\* Before a client exists: no object, no session made.
NotConstructed ==
    /\ hs = [auth |-> AuthNone, use_https |-> TRUE, url_base |-> << >>,
             session |-> 0, _resource_types |-> [is_none |-> TRUE, value |-> {}]]
    /\ net = [created |-> 0, closed |-> {}]
    /\ op = [name |-> None, args |-> << >>]
    /\ log = << >>
    /\ result = Pending
    /\ pc = "new"
    /\ gen = GenIdle
    /\ yielded = << >>
    /\ bag = BagIdle
    /\ fs = NoFiles
    /\ __debug__ = TRUE

\* Construction, then calls on the client that was built.
NextInit ==
    \/ Construct
    \/ GetUserInfo
    \/ GetResourceTypes
    \/ Continue

SpecInit == NotConstructed /\ [][NextInit]_vars

\* Plain calls: the get operations, createResource and the two PUT operations
\* that return the parsed body.
NextCalls ==
    \/ GetSystemMetadata
    \/ GetScienceMetadataRDF
    \/ GetScienceMetadata
    \/ GetResourceMap
    \/ GetResourceFile
    \/ GetResourceFolderContents
    \/ GetResourceTypes
    \/ GetUserInfo
    \/ CreateResource
    \/ UpdateScienceMetadata
    \/ CreateResourceFolder
    \/ Continue

\* Paginated listings.
NextList ==
    \/ GetResourceList
    \/ GetResourceFileList
    \/ ResourceList
    \/ GenNext
    \/ GenFirstPage
    \/ GenYield
    \/ GenStop
    \/ GenNextPage
    \/ GenNextAfterEnd
    \/ Continue

\* Archive retrieval.
NextBag ==
    \/ GetResource
    \/ _getBagStream
    \/ PollTaskStatus
    \/ Continue

\* Changes of a resource, under either setting of the interpreter.
NextWrites ==
    \/ DeleteResource
    \/ SetAccessRules
    \/ AddResourceFile
    \/ DeleteResourceFile
    \/ Continue

SpecWrites == Constructed(BOOLEAN) /\ [][NextWrites]_vars

\* Archive retrieval that stores the archive.
NextStore ==
    \/ GetResourceTo
    \/ Continue

SpecStore == Init /\ [][NextStore]_vars

\* The resource endpoint.
NextEndpoints ==
    \/ Copy
    \/ Version
    \/ Flag
    \/ Public
    \/ Discoverable
    \/ Shareable
    \/ ScimetaCustom
    \/ FunctionsMoveOrRename
    \/ Continue

SpecEndpoints == Init /\ [][NextEndpoints]_vars

\* Calls given a destination that is refused; getResource waits for the archive.
NextLocal ==
    \/ GetResourceInto(TRUE)
    \/ _getBagStream
    \/ PollTaskStatus
    \/ GetResourceFileTo
    \/ Continue

SpecLocal == Init /\ [][NextLocal]_vars

\* Calls given local input: a destination that is refused (getResource does
\* not wait for the archive) or a file to upload.
NextInputs ==
    \/ GetResourceInto(FALSE)
    \/ _getBagStream
    \/ GetResourceFileTo
    \/ AddResourceFile
    \/ CreateResourceWithFile
    \/ Continue

SpecInputs == Init /\ [][NextInputs]_vars

SpecCalls == Init /\ [][NextCalls]_vars
SpecList == Init /\ [][NextList]_vars
SpecBag == Init /\ [][NextBag]_vars

-----------------------------------------------------------------------------
(* Properties of the paginated list generators (SpecList) *)

Last(q) == q[Len(q)]

InGenerator == pc \in {"gen_created", "gen_first", "gen_loop", "gen_suspended", "gen_done"}

\* The request was answered (it did not end in a transport error).
Answered(e) == e.ev = "request" /\ e.response.py = "Response"

\* A 200 page with a results list.
GoodPage(e) == Answered(e) /\ e.response.status_code = 200 /\ e.response.results.tag = "value"

\* `next` is present and empty (null or the empty string).
EmptyNext(e) == e.response.next.tag # "missing" /\ ~Truthy(e.response.next)

\* The pages served so far are a whole listing: all of them 200, every one
\* but the last with a followable `next`, the last with an empty `next`.
WholeListing ==
    /\ InGenerator
    /\ Len(log) >= 1
    /\ \A i \in 1..Len(log) :
        /\ GoodPage(log[i])
        /\ i < Len(log) => Truthy(log[i].response.next)
        /\ i = Len(log) => EmptyNext(log[i])

\* The concatenation of the served pages' results, in server order.
ServedItems == Concat([i \in 1..Len(log) |-> log[i].response.results.v])

\* C1: once the server has served a whole listing of N >= 1 pages (all 200, only
\* the last `next` empty), the generator has made exactly those N GET requests
\* and can make no other; what it has yielded plus what it still holds of the
\* last page is the concatenation of the pages' results in server order; it can
\* always go on to yield or stop, and when it has finished it has stopped
\* normally with exactly that concatenation yielded.
C1_ListYieldsAllPagesInOrder ==
    WholeListing =>
        /\ \A i \in 1..Len(log) : log[i].method = "GET"
        /\ ~ENABLED GenNextPage
        /\ ~ENABLED GenFirstPage
        /\ yielded \o gen.buf = ServedItems
        /\ pc = "gen_loop" => ENABLED GenYield \/ ENABLED GenStop
        /\ pc = "gen_suspended" => ENABLED GenNext
        /\ pc = "gen_done" => result = Return("StopIteration") /\ yielded = ServedItems

\* Witness of C1: a two-page listing, three items, both generators' shape:
\* finished with everything yielded.
C1_Witness ==
    /\ WholeListing
    /\ pc = "gen_done"
    /\ Len(log) = 2
    /\ yielded = <<2, 1, 1>>

\* The error a non-200 page must be signalled as.
SignalledAs(e, exc) ==
    LET st == e.response.status_code
    IN  IF st = 403 THEN exc.type = "HydroShareNotAuthorized"
        ELSE IF st = 404 THEN exc.type = "HydroShareNotFound"
        ELSE /\ exc.type = "HydroShareHTTPException"
             /\ exc.method = e.method
             /\ exc.url = e.url
             /\ exc.status_code = st

\* C2: in both list generators a non-200 page (the first or a followed one) is
\* signalled as NotAuthorized (403), NotFound (404), and otherwise as HTTPError
\* carrying the method, the URL requested and the status received.
C2_ListErrorsClassified ==
    (InGenerator /\ log # << >> /\ Answered(Last(log))
        /\ Last(log).response.status_code # 200)
    => /\ pc = "gen_done"
       /\ result.kind = "raise"
       /\ SignalledAs(Last(log), result.exc)

-----------------------------------------------------------------------------
(* Properties of the plain calls (SpecCalls) *)

GetOpsWithPid ==
    {"getSystemMetadata", "getScienceMetadata", "getScienceMetadataRDF",
     "getResourceMap", "getResourceFile", "getResourceFolderContents"}
GetOpsWithoutPid == {"getResourceTypes", "getUserInfo"}
GetOps == GetOpsWithPid \cup GetOpsWithoutPid

Is2xx(st) == st \in 200..299

\* A finished get call whose request was answered.
GetAnswered == pc = "done" /\ op.name \in GetOps /\ Len(log) = 1 /\ Answered(log[1])

RaisedType(type) == result.kind = "raise" /\ result.exc.type = type

RaisedHTTPError(st) ==
    /\ RaisedType("HydroShareHTTPException")
    /\ result.exc.status_code = st

\* 403 -> NotAuthorized, 404 -> NotFound, other non-2xx -> HTTPError(status).
ClassifiedByStatus(st) ==
    /\ st = 403 => RaisedType("HydroShareNotAuthorized")
    /\ st = 404 => RaisedType("HydroShareNotFound")
    /\ (~Is2xx(st) /\ st \notin {403, 404}) => RaisedHTTPError(st)

\* C3 as stated: every get operation of the client (getResourceTypes and
\* getUserInfo included) answers 403 with NotAuthorized, 404 with NotFound and
\* any other non-2xx status with HTTPError carrying that status.
C3_AllGetsClassifyErrors ==
    GetAnswered => ClassifiedByStatus(log[1].response.status_code)

\* C3 amended: the get operations that take a resource id answer 403 with
\* NotAuthorized, 404 with NotFound and any other non-2xx status with HTTPError
\* carrying that status; getResourceTypes and getUserInfo answer every non-2xx
\* status, 403 and 404 included, with HTTPError carrying that status.
C3_GetErrorsClassified ==
    GetAnswered =>
        LET st == log[1].response.status_code
        IN  /\ op.name \in GetOpsWithPid => ClassifiedByStatus(st)
            /\ op.name \in GetOpsWithoutPid => (~Is2xx(st) => RaisedHTTPError(st))

\* Witness of C3: getUserInfo answered 403 and raised HTTPError(403).
C3_Witness ==
    /\ GetAnswered
    /\ op.name = "getUserInfo"
    /\ log[1].response.status_code = 403
    /\ RaisedHTTPError(403)

RequestEvents == {i \in 1..Len(log) : log[i].ev = "request"}

\* The call is over and ended in the error e, raised by the last request.
Propagated(i, type) ==
    /\ i = Len(log)
    /\ pc \in {"done", "gen_done"}
    /\ RaisedType(type)

\* The first send of request i got through: one send, the session untouched.
FirstSendOk(i) ==
    log[i].transport.first = Ok =>
        /\ log[i].sends = 1
        /\ log[i].inits = 0
        /\ log[i].sessions[2] = log[i].sessions[1]

\* C6 as stated: a first send that succeeds means one send and no
\* re-initialization; a first send that fails with a connection error means
\* exactly one re-initialization and exactly one more send of the same request;
\* if that one fails too the error propagates (no third send, no second
\* re-initialization).
C6_RequestRetriesOnce ==
    \A i \in RequestEvents :
        /\ FirstSendOk(i)
        /\ log[i].transport.first = Fail =>
            /\ log[i].inits = 1
            /\ log[i].sends = 2
            /\ log[i].sessions[2] = log[i].sessions[1] + 1
            /\ log[i].sessions[1] \in net.closed
            /\ log[i].transport.second = Fail =>
                ~Answered(log[i]) /\ Propagated(i, "ConnectionError")

\* The re-initialization of request i ran to its end (a password-grant OAuth2
\* session has to fetch a token, which can fail).
ReinitCompleted(i) ==
    hs.auth.kind = "OAuth2" /\ ~hs.auth.token => log[i].transport.fetch

\* C6 amended: a first send that succeeds means one send and no
\* re-initialization; a first send that fails with a connection error means
\* exactly one call of _initializeSession, which closes the old session and
\* installs a new one; if it completes, the same request is sent exactly once
\* more, and if that send fails too the error propagates (no third send, no
\* second re-initialization); if the re-initialization itself raises (the token
\* fetch of a password-grant OAuth2 session), that error propagates and the
\* request is not sent again.
C6_RequestRetriesOnceIfReinitialized ==
    \A i \in RequestEvents :
        /\ FirstSendOk(i)
        /\ log[i].transport.first = Fail =>
            /\ log[i].inits = 1
            /\ log[i].sessions[2] = log[i].sessions[1] + 1
            /\ log[i].sessions[1] \in net.closed
            /\ ReinitCompleted(i) =>
                /\ log[i].sends = 2
                /\ log[i].transport.second = Ok => Answered(log[i])
                /\ log[i].transport.second = Fail =>
                    ~Answered(log[i]) /\ Propagated(i, "ConnectionError")
            /\ ~ReinitCompleted(i) =>
                /\ log[i].sends = 1
                /\ ~Answered(log[i])
                /\ Propagated(i, "ConnectionError")

\* Witness of C6: a request whose first send failed and whose re-initialization
\* failed in the token fetch; the request was sent once.
C6_Witness ==
    /\ pc = "done"
    /\ Len(log) = 1
    /\ log[1].transport.first = Fail
    /\ ~ReinitCompleted(1)
    /\ log[1].sends = 1
    /\ RaisedType("ConnectionError")

CreateDone == pc = "done" /\ op.name = "createResource"

Posts == {i \in RequestEvents : log[i].method = "POST"}

\* C10: createResource with a resource_type in the set of resource types the
\* server gave and a 201 response returns the resource_id of the response; with
\* a resource_type not in that set it fails with ArgumentError and no POST is
\* issued.
C10_CreateChecksType ==
    (CreateDone /\ ~hs._resource_types.is_none) =>
        LET known == hs._resource_types.value
            rtype == op.args[1]
        IN  /\ rtype \notin known =>
                /\ RaisedType("HydroShareArgumentException")
                /\ Posts = {}
            /\ (/\ rtype \in known
                /\ Posts # {}
                /\ Answered(Last(log))
                /\ Last(log).response.status_code = 201
                /\ Last(log).response.resource_id # None) =>
                    /\ result = Return(Last(log).response.resource_id)
                    /\ Cardinality(Posts) = 1
                    /\ Last(log).url = hs.url_base \o <<"/resource/">>

\* Witness of C10: the types were fetched in this call, the type is not among
\* them, ArgumentError and no POST.
C10_Witness ==
    /\ CreateDone
    /\ Len(log) = 1
    /\ Answered(log[1])
    /\ log[1].response.status_code = 200
    /\ op.args[1] \notin hs._resource_types.value
    /\ ~hs._resource_types.is_none
    /\ RaisedType("HydroShareArgumentException")

-----------------------------------------------------------------------------
(* Properties of the archive retrieval (SpecBag) *)

InRetrieval == op.name = "getResource" /\ log # << >>

\* log[i] is an answered GET of the archive / of the task status.
ArchiveGet(i) ==
    /\ i \in RequestEvents
    /\ log[i].method = "GET"
    /\ log[i].url = BagUrl(hs, bag.pid)
    /\ Answered(log[i])

JsonArchive(i) ==
    /\ ArchiveGet(i)
    /\ log[i].response.status_code = 200
    /\ log[i].response.ctype = "application/json"
    /\ BagJson(log[i].response.content).ok

NotReadyArchive(i) ==
    JsonArchive(i) /\ BagJson(log[i].response.content).bag_status = "Not ready"

TaskPoll(i) ==
    /\ i \in RequestEvents
    /\ log[i].url[3] = "/taskstatus/"
    /\ Answered(log[i])
    /\ TaskJson(log[i].response.content).ok

ReadyPoll(i) == TaskPoll(i) /\ TaskJson(log[i].response.content).status
NotReadyPoll(i) == TaskPoll(i) /\ ~TaskJson(log[i].response.content).status

NoFurtherRequest == ~ENABLED _getBagStream /\ ~ENABLED PollTaskStatus

\* C4: with wait_for_bag_creation = False, an archive GET answered 200 with a
\* JSON body whose bag_status is "Not ready" ends the retrieval with BagNotReady
\* after exactly one archive GET: no task-status request, no sleep, no second
\* archive request.
C4_NotReadyWithoutWaitFails ==
    (InRetrieval /\ ~bag.wait /\ NotReadyArchive(1)) =>
        /\ pc = "done"
        /\ RaisedType("HydroShareBagNotReadyException")
        /\ Len(log) = 1
        /\ Sleeps(log) = << >>
        /\ NoFurtherRequest

C4_Witness ==
    /\ InRetrieval
    /\ ~bag.wait
    /\ NotReadyArchive(1)
    /\ result = Raise(HydroShareBagNotReadyException("Please try later"))

\* The server of C5: not ready at the first archive GET, ready at the first poll.
ReadyAtFirstPoll ==
    /\ InRetrieval
    /\ bag.wait
    /\ Len(log) >= 3
    /\ NotReadyArchive(1)
    /\ ReadyPoll(3)

BinaryArchive(i) ==
    /\ ArchiveGet(i)
    /\ log[i].response.status_code = 200
    /\ log[i].response.ctype = "application/zip"

\* C5: with wait_for_bag_creation = True, a first archive GET answered "Not
\* ready" and a first task-status poll answered ready give exactly the requests
\* archive GET, task-status GET (of the task the first answer named), archive
\* GET, and the retrieval returns the body of the second archive response, chunk
\* after chunk, unchanged.
C5_OnePollCycleThenStream ==
    ReadyAtFirstPoll =>
        /\ log[2] = SleepEvent(3)
        /\ log[3].method = "GET"
        /\ log[3].url = TaskStatusUrl(hs, BagJson(log[1].response.content).task_id)
        /\ Len(log) = 3 => pc = "bag_get" /\ ENABLED _getBagStream
        /\ Len(log) >= 4 =>
            /\ log[4].ev = "request"
            /\ log[4].method = "GET"
            /\ log[4].url = BagUrl(hs, bag.pid)
        /\ (Len(log) >= 4 /\ BinaryArchive(4)) =>
            /\ pc = "done"
            /\ Len(log) = 4
            /\ Len(Requests(log)) = 3
            /\ result.kind = "return"
            /\ Concat(result.value) = log[4].response.content
            /\ NoFurtherRequest

C5_Witness ==
    /\ ReadyAtFirstPoll
    /\ Len(log) = 4
    /\ BinaryArchive(4)
    /\ log[4].response.content = <<1, 0>>
    /\ result = Return(<<<<1>>, <<0>>>>)

\* The retrieval entered the poll loop at its first archive GET.
Polling == InRetrieval /\ bag.wait /\ NotReadyArchive(1)

\* C7: with wait_for_bag_creation = True the poll loop has no iteration bound.
\* A poll that reports not ready leaves the retrieval in the loop, neither
\* returned nor raised, with the next poll due, however many polls went before;
\* a poll that reports ready leaves the loop for the archive request; and the
\* retrieval returns only after a poll that reported ready.
C7_PollsUntilReady ==
    Polling =>
        /\ NotReadyPoll(Len(log)) =>
            /\ pc = "bag_poll"
            /\ result = Pending
            /\ Len(Sleeps(log)) < MaxPolls => ENABLED PollTaskStatus
        /\ ReadyPoll(Len(log)) => pc = "bag_get" /\ ENABLED _getBagStream
        /\ Len(log) = 1 => pc = "bag_poll" /\ ENABLED PollTaskStatus
        /\ (pc = "done" /\ result.kind = "return") =>
            \E i \in 1..Len(log) : ReadyPoll(i)
        /\ \A i \in 2..Len(log) :
            (log[i].ev = "request" /\ log[i - 1].ev = "request") => ReadyPoll(i - 1)

\* Witness of C7: MaxPolls polls, none ready, and the retrieval is still polling.
C7_Witness ==
    /\ Polling
    /\ Len(Sleeps(log)) = MaxPolls
    /\ \A i \in RequestEvents : i > 1 => NotReadyPoll(i)
    /\ pc = "bag_poll"
    /\ result = Pending

\* C8: an archive GET answered 200 with content-type application/json and a
\* bag_status other than "Not ready" is handled as not ready (BagNotReady when
\* waiting is disallowed, polling when it is allowed); the JSON body is never
\* returned as the archive stream.
C8_ReadyJsonTreatedAsNotReady ==
    (InRetrieval /\ JsonArchive(Len(log))
     /\ BagJson(Last(log).response.content).bag_status # "Not ready") =>
        /\ result.kind # "return"
        /\ ~bag.wait => pc = "done" /\ RaisedType("HydroShareBagNotReadyException")
        /\ bag.wait => pc = "bag_poll"

TextArchive(i) ==
    /\ ArchiveGet(i)
    /\ log[i].response.status_code = 200
    /\ log[i].response.ctype = "text/plain"

\* C9: an archive GET answered 200 with content-type text/plain ends the
\* retrieval with an error that carries the response body, whatever
\* wait_for_bag_creation is; no stream is returned and no request follows.
C9_TextBodyIsError ==
    (InRetrieval /\ TextArchive(Len(log))) =>
        /\ pc = "done"
        /\ result = Raise(HydroShareException(Last(log).response.content))
        /\ NoFurtherRequest

\* Witness of C9: the text answer comes after a poll cycle of a waiting call.
C9_Witness ==
    /\ ReadyAtFirstPoll
    /\ Len(log) = 4
    /\ TextArchive(4)
    /\ result = Raise(HydroShareException(<<0, 1>>))

-----------------------------------------------------------------------------
(* Properties of the operations that change a resource (SpecWrites) *)

ChangeOps == {"deleteResource", "deleteResourceFile", "addResourceFile", "setAccessRules"}

ExpectedStatus(name) == IF name = "addResourceFile" THEN 201 ELSE 200

\* A finished change whose request got the operation's success status.
ChangeSucceeded ==
    /\ pc = "done"
    /\ op.name \in ChangeOps
    /\ Len(log) = 1
    /\ Answered(log[1])
    /\ log[1].response.status_code = ExpectedStatus(op.name)

\* C11: deleteResource, deleteResourceFile, addResourceFile and setAccessRules
\* return, whenever they return, the resource id they were called with.
C11_ReturnsRequestedId ==
    (pc = "done" /\ op.name \in ChangeOps /\ result.kind = "return") =>
        result.value = op.args[1]

\* C12: a success response that names another resource id than the requested
\* one makes the call fail with an error of the HydroShareException family.
C12_IdMismatchIsClientError ==
    (/\ ChangeSucceeded
     /\ log[1].response.resource_id # None
     /\ log[1].response.resource_id # op.args[1]) =>
        /\ result.kind = "raise"
        /\ result.exc.type \in HydroShareExceptionFamily

-----------------------------------------------------------------------------
(* Properties of the stored archive (SpecStore) *)

Events(kind) == {i \in 1..Len(log) : log[i].ev = kind}

\* A finished getResource(pid, destination, unzip) whose archive GET was
\* answered with a body that _getBagStream hands on as the stream.
StoreCall(unzip) ==
    /\ pc = "done"
    /\ op.name = "getResource"
    /\ Len(op.args) = 4
    /\ op.args[3] = unzip
    /\ Answered(log[1])
    /\ BagStream(log[1].response, op.args[1], log[1].url, FALSE).kind = "return"

\* The stream was written to its end into the file at path.
Downloaded(path) ==
    /\ \E i \in Events("open") : log[i].path = path
    /\ Events("stream raised") = {}

ZipPath(dir) == <<dir, op.args[1], ".zip">>

\* C13: with unzip=True, once the archive is downloaded into the temporary
\* directory, the extraction targets destination/{pid}, the temporary directory
\* is removed whether the extraction succeeded or failed, and a failed
\* extraction is not propagated: getResource returns None.
C13_TempDirRemovedAfterExtraction ==
    \A tempdir \in TempDirs :
        (StoreCall(TRUE) /\ Downloaded(ZipPath(tempdir))) =>
            /\ result = Return(None)
            /\ \E i \in Events("extractall") :
                /\ Events("extractall") = {i}
                /\ log[i].path = ZipPath(tempdir)
                /\ log[i].dest = <<op.args[2], op.args[1]>>
                /\ log[i].ok = IsZip(log[1].response.content)
                /\ log[i].ok => fs.trees[log[i].dest] = Unzip(log[1].response.content)
            /\ Last(log) = FsEvent("rmtree", tempdir)
            /\ tempdir \notin fs.tmp
            /\ \A path \in DOMAIN fs.files : path[1] # tempdir

\* Witness of C13: the extraction failed, the call returned None and the
\* temporary directory is gone.
C13_Witness ==
    /\ StoreCall(TRUE)
    /\ Downloaded(ZipPath("tmp1"))
    /\ \E i \in Events("extractall") : ~log[i].ok
    /\ result = Return(None)
    /\ "tmp1" \notin fs.tmp

WrittenChunks == [i \in 1..Cardinality(Events("write")) |-> log[1 + 1 + i].data]

\* C14: getResource with a destination and unzip=False writes the chunks of
\* the stream, in order and unchanged, to destination/{pid}.zip, whatever that
\* file held before, so that the file holds the bytes served, and returns None;
\* without a destination it touches no file and returns the chunk stream.
C14_StoresBytesServed ==
    /\ (StoreCall(FALSE) /\ Downloaded(ZipPath(op.args[2]))) =>
        /\ result = Return(None)
        /\ fs.files[ZipPath(op.args[2])] = log[1].response.content
        /\ WrittenChunks = iter_content(log[1].response.content, STREAM_CHUNK_SIZE)
        /\ \A i \in Events("write") : log[i].path = ZipPath(op.args[2])
        /\ Events("mkdtemp") = {} /\ Events("extractall") = {}
    /\ (StoreCall(FALSE) /\ op.args[2] = None) =>
        /\ Len(log) = 1
        /\ result = Return(iter_content(log[1].response.content, STREAM_CHUNK_SIZE))

\* Witness of C14: two chunks were written to a file of two bytes.
C14_Witness ==
    /\ StoreCall(FALSE)
    /\ Downloaded(ZipPath("dest"))
    /\ Cardinality(Events("write")) = 2
    /\ fs.files[ZipPath("dest")] = <<1, 0>>
    /\ \E dirname \in DOMAIN fs.trees : TRUE

-----------------------------------------------------------------------------
(* Properties of the error policy *)

\* C16: an operation that receives a failure status (403, 404 or any other
\* non-2xx) raises an error to its caller, the resource endpoint operations
\* included: the request that got the failure status is the last of the call
\* and the call ends with an error.
C16_FailureStatusRaises ==
    \A i \in RequestEvents :
        (Answered(log[i]) /\ ~Is2xx(log[i].response.status_code)) =>
            /\ i = Len(log)
            /\ pc \in {"done", "gen_done"}
            /\ result.kind = "raise"

-----------------------------------------------------------------------------
(* Properties of construction *)

\* The auth configurations that the constructor must refuse.
RefusedAuth(auth, use_https) ==
    \/ auth.kind \in {"Basic", "OAuth2"} /\ ~use_https
    \/ auth.kind = "OAuth2" /\ ~auth.token /\ (~auth.username \/ ~auth.password)
    \/ auth.kind = "Other"

\* C15: constructing a client with basic or OAuth2 auth over http, with OAuth2
\* auth that has neither a token nor both username and password, or with an
\* auth object of an unsupported type fails with
\* HydroShareAuthenticationException; no session is installed and no HTTP
\* request is sent.
C15_RefusedAuthRaisesAuthenticationError ==
    (/\ op.name = "__init__"
     /\ pc # "new"
     /\ op.args[2] \in {0, 8080}
     /\ RefusedAuth(op.args[1], op.args[3])) =>
        /\ result.kind = "raise"
        /\ result.exc.type = "HydroShareAuthenticationException"
        /\ hs.session = 0
        /\ net.created = 0
        /\ log = << >>

-----------------------------------------------------------------------------
(* Properties of HTTPError *)

\* The call is over and ended in HTTPError.
EndedInHTTPError == pc = "done" /\ RaisedType("HydroShareHTTPException")

\* The status with which request e of operation name succeeds.
SuccessStatus(name, e) ==
    IF name = "createResource" /\ e.method = "POST" THEN 201
    ELSE IF name = "createResourceFolder" THEN 201
    ELSE IF name = "updateScienceMetadata" THEN 202
    ELSE 200

\* Request e of operation name has no branch for status st other than HTTPError.
Unclassified(name, e, st) ==
    \/ name \in GetOpsWithoutPid
    \/ name = "createResource" /\ e.method = "GET"
    \/ name = "createResource" /\ st = 404

\* C17 as stated: HTTPError is raised only for a response whose status is
\* outside 2xx and is neither 403 nor 404; no 2xx response is reported to the
\* caller as HTTPError.
C17_HTTPErrorOnlyForNon2xx ==
    EndedInHTTPError =>
        /\ log # << >>
        /\ Answered(Last(log))
        /\ ~Is2xx(Last(log).response.status_code)
        /\ Last(log).response.status_code \notin {403, 404}

\* C17 amended: HTTPError is raised only for a response whose status is not
\* the one the operation expects on success (200; 201 for createResource and
\* createResourceFolder; 202 for updateScienceMetadata); it carries that
\* status; the status is 403 or 404 only where the operation has no
\* NotAuthorized or NotFound branch for it.
C17_HTTPErrorOnlyForUnexpectedStatus ==
    EndedInHTTPError =>
        /\ log # << >>
        /\ Answered(Last(log))
        /\ Last(log).response.status_code # SuccessStatus(op.name, Last(log))
        /\ result.exc.status_code = Last(log).response.status_code
        /\ Last(log).response.status_code \in {403, 404} =>
            Unclassified(op.name, Last(log), Last(log).response.status_code)

\* Witness of C17: updateScienceMetadata answered 200 ended in HTTPError(200).
C17_Witness ==
    /\ EndedInHTTPError
    /\ op.name = "updateScienceMetadata"
    /\ Answered(Last(log))
    /\ Last(log).response.status_code = 200
    /\ result.exc.status_code = 200

-----------------------------------------------------------------------------
(* Properties of the list generators: the end of a listing *)

\* The last page taken in is a 200 page with a results list.
LastPageGood == InGenerator /\ log # << >> /\ GoodPage(Last(log))

\* C18 as stated: after a page whose `next` is empty or absent the generator
\* ends normally: no error, no further request.
C18_EndsWhenNextEmptyOrAbsent ==
    (LastPageGood /\ ~Truthy(Last(log).response.next)) =>
        /\ ~ENABLED GenNextPage
        /\ (pc = "gen_loop" /\ gen.buf = << >>) => ENABLED GenStop
        /\ pc = "gen_done" => result = Return("StopIteration")

\* C18 amended: after a page whose `next` is present and empty (null or the
\* empty string) the generator ends normally once the page's items are
\* yielded: no error, no further request; after a page with no `next` field it
\* makes no further request either but ends in KeyError.
C18_EndsWhenNextEmpty ==
    (LastPageGood /\ ~Truthy(Last(log).response.next)) =>
        /\ ~ENABLED GenNextPage
        /\ (pc = "gen_loop" /\ gen.buf = << >>) => ENABLED GenStop
        /\ pc = "gen_done" =>
            /\ yielded \o gen.buf = ServedItems
            /\ gen.buf = << >>
            /\ IF EmptyNext(Last(log)) THEN result = Return("StopIteration")
               ELSE result = Raise(KeyError("next"))

\* Witness of C18: a page with a null `next` and two items, both yielded, the
\* generator ended normally.
C18_Witness ==
    /\ LastPageGood
    /\ Last(log).response.next = Null(<< >>)
    /\ pc = "gen_done"
    /\ yielded = <<2, 1>>
    /\ result = Return("StopIteration")

\* C19: a 200 page without `results` or without `next` is fatal: the request
\* that got it is the last one; without `results` the generator fails at once,
\* without `next` it fails once the page's items are yielded; the error is
\* KeyError and reaches the consumer.
C19_MalformedEnvelopeIsFatal ==
    \A i \in RequestEvents :
        (/\ InGenerator
         /\ Answered(log[i])
         /\ log[i].response.status_code = 200
         /\ "missing" \in {log[i].response.results.tag, log[i].response.next.tag}) =>
            /\ i = Len(log)
            /\ ~ENABLED GenNextPage
            /\ log[i].response.results.tag = "missing" =>
                pc = "gen_done" /\ result = Raise(KeyError("results"))
            /\ log[i].response.results.tag # "missing" =>
                /\ (pc = "gen_loop" /\ gen.buf = << >>) => ENABLED GenStop
                /\ pc = "gen_done" => result = Raise(KeyError("next"))

\* Witness of C19: the second page has no `next`; its item was yielded and the
\* generator ended in KeyError.
C19_Witness ==
    /\ pc = "gen_done"
    /\ Len(log) = 2
    /\ GoodPage(log[2])
    /\ log[2].response.next.tag = "missing"
    /\ log[2].response.results.v # << >>
    /\ yielded = ServedItems
    /\ result = Raise(KeyError("next"))

\* What one step of a consumer and a generator may do.
LazyStep ==
    /\ (log = << >> /\ log' # << >>) => pc = "gen_first"
    /\ (log # << >> /\ Len(log') > Len(log)) =>
        /\ gen.buf = << >>
        /\ \A i \in 1..Len(log) : GoodPage(log[i])
        /\ yielded = ServedItems
    /\ (pc \in {"gen_done", "gen_exhausted"} /\ pc' # "idle") =>
        /\ log' = log
        /\ yielded' = yielded
        /\ pc' = "gen_exhausted"

\* C20: the generator is lazy and single-pass: creating it sends no request;
\* the first request is sent when the first item is demanded; a further page is
\* requested only when every item of the pages before is yielded; a generator
\* that has ended or raised yields nothing more and requests nothing more.
C20_LazySinglePass ==
    /\ [](pc = "gen_created" => log = << >> /\ yielded = << >>)
    /\ [][LazyStep]_vars

\* Witness of C20: two pages requested, their items yielded, the generator
\* ended and asked once more.
C20_Witness ==
    /\ pc = "gen_exhausted"
    /\ Len(log) = 2
    /\ GoodPage(log[1])
    /\ log[1].response.results.v # << >>
    /\ GoodPage(log[2])
    /\ yielded = ServedItems

-----------------------------------------------------------------------------
(* Properties of the session *)

\* The client's configuration: auth, scheme and url_base.
Configuration(self) == <<self.auth, self.use_https, self.url_base>>

\* The client holds one session, the newest made, and it is the only one open.
OneCurrentSession ==
    /\ hs.session = net.created
    /\ hs.session >= 1
    /\ net.closed = (1..net.created) \ {hs.session}

\* The requests of a step that re-initialized the session.
Reinitialized ==
    {i \in (Len(log) + 1)..Len(log') : log'[i].ev = "request" /\ log'[i].inits = 1}

\* A step replaces the session once per re-initialization, each of which
\* closes the session in place and installs a new one; no step touches the
\* configuration.
SessionStep ==
    /\ Configuration(hs') = Configuration(hs)
    /\ hs'.session = hs.session + Cardinality(Reinitialized)
    /\ net'.closed = net.closed \cup (hs.session..(hs'.session - 1))
    /\ net'.created = hs'.session
    /\ \A i \in Reinitialized :
        /\ log'[i].transport.first = Fail
        /\ log'[i].sessions[2] = log'[i].sessions[1] + 1
        /\ log'[i].sessions[1] \in net'.closed

\* C21: after construction and after any sequence of requests, connection
\* failures and retries the client holds exactly one current session; each
\* re-initialization closes the session in place and installs its replacement,
\* and leaves auth, scheme and url_base as they were.
C21_OneSessionConfigurationKept ==
    /\ []OneCurrentSession
    /\ [][SessionStep]_vars

\* Witness of C21: a request whose first send failed; the session was replaced
\* and the first one is closed.
C21_Witness ==
    /\ pc = "done"
    /\ Len(log) = 1
    /\ log[1].inits = 1
    /\ hs.session = 2
    /\ net.closed = {1}

-----------------------------------------------------------------------------
(* Properties of calls given local input (SpecInputs, SpecLocal) *)

ArgumentError == RaisedType("HydroShareArgumentException")

\* A destination the caller gave that is not a directory or is not writable.
BadDestination(destination) ==
    IsGiven(destination) /\ (~isdir(destination) \/ ~access_W_OK(destination))

\* A path that is not a readable file, or a file-like object without a name.
BadUpload(resource_file, resource_filename) ==
    \/ resource_file.kind = "str" /\ ~resource_file.readable
    \/ resource_file.kind = "file" /\ resource_filename = None

GetResourceDone == pc = "done" /\ op.name = "getResource" /\ Len(op.args) = 4
GetResourceFileDone == pc = "done" /\ op.name = "getResourceFile" /\ Len(op.args) = 3
AddResourceFileDone == pc = "done" /\ op.name = "addResourceFile"

\* The last request of the call is an archive GET whose answer _getBagStream
\* returns as the stream.
StreamObtained ==
    /\ log # << >>
    /\ \/ BinaryArchive(Len(log))
       \/ JsonArchive(Len(log)) /\ ~NotReadyArchive(Len(log))

-----------------------------------------------------------------------------
(* Properties of the resource endpoint payloads (SpecEndpoints) *)

EndpointDone(name) == pc = "done" /\ op.name = name /\ Len(log) = 1

\* C23: scimeta.custom(payload) sends the payload it was given as the data of
\* its POST to {url_base}/resource/{pid}/scimeta/custom/.
C23_CustomSendsPayload ==
    EndpointDone("scimeta.custom") =>
        /\ log[1].method = "POST"
        /\ log[1].url = hs.url_base \o <<"/resource/", op.args[1], "/scimeta/custom/">>
        /\ log[1].data = op.args[2]

\* The payload documented for flag: field t names the change.
FlagPayload(name, boolean) ==
    [t |-> IF name = "public" THEN (IF boolean THEN "make_public" ELSE "make_private")
           ELSE IF name = "discoverable"
           THEN (IF boolean THEN "make_discoverable" ELSE "make_not_discoverable")
           ELSE (IF boolean THEN "make_shareable" ELSE "make_not_shareable")]

\* C24: public(b), discoverable(b) and shareable(b) each issue exactly the
\* request flag issues for the documented payload: one POST to
\* {url_base}/resource/{pid}/flag/ whose data is field t set to the change
\* that b selects.
C24_HelpersPassDocumentedPayload ==
    \A name \in {"public", "discoverable", "shareable"} :
        EndpointDone(name) =>
            /\ log[1].method = "POST"
            /\ log[1].url = hs.url_base \o <<"/resource/", op.args[1], "/flag/">>
            /\ log[1].data = FlagPayload(name, op.args[2])

-----------------------------------------------------------------------------
(* Properties of the followed pages (SpecList) *)

\* url with the first of its "http://" replaced by "https://".
SecuredUrl(url) ==
    LET at == {k \in 1..Len(url) : url[k] = "http://"}
    IN  IF at = {} THEN url
        ELSE [k \in 1..Len(url) |->
                IF k \in at /\ (\A j \in at : k <= j) THEN "https://" ELSE url[k]]

\* C25: every page after the first is requested with the query parameters of
\* the first request, at the URL the page before gave as `next`, with the first
\* "http://" of that URL replaced by "https://" when the client uses https and
\* with the URL as it is when the client does not.
C25_FollowsNextWithSameParams ==
    InGenerator =>
        \A i \in 2..Len(log) :
            /\ log[i].method = "GET"
            /\ log[i].params = log[1].params
            /\ log[i].params = gen.params
            /\ GoodPage(log[i - 1])
            /\ Truthy(log[i - 1].response.next)
            /\ log[i].url = IF hs.use_https THEN SecuredUrl(log[i - 1].response.next.v)
                            ELSE log[i - 1].response.next.v

\* Witness of C25: a client that uses https followed a `next` that holds
\* "http://" twice, with parameters, and only the first was replaced.
C25_Witness ==
    /\ InGenerator
    /\ hs.use_https
    /\ Len(log) = 2
    /\ log[1].params # None
    /\ Cardinality({k \in 1..Len(log[1].response.next.v) :
                       log[1].response.next.v[k] = "http://"}) = 2
    /\ log[2].url[1] = "https://"
    /\ log[2].url[3] = "http://"
    /\ log[2].url # log[1].response.next.v

\* A second witness of C25: a client that does not use https followed a
\* `next` that starts with "http://" as it is.
C25_WitnessPlain ==
    /\ InGenerator
    /\ ~hs.use_https
    /\ Len(log) = 2
    /\ log[2].url = log[1].response.next.v
    /\ log[2].url[1] = "http://"

\* The listing ended at a followed page that was answered with a status other
\* than 200.
FollowedPageFailed ==
    /\ pc \in {"gen_done", "gen_exhausted"}
    /\ Len(log) >= 2
    /\ Answered(Last(log))
    /\ Last(log).response.status_code # 200

\* The results of the pages before the last one requested, in server order.
ItemsBefore(l) == Concat([i \in 1..(Len(l) - 1) |-> l[i].response.results.v])

\* The step that requests a followed page which fails is taken with every item
\* of the pages before it yielded, and yields nothing; after the failure no
\* step of the generator makes a request or yields (the caller may drop it).
FailingStep ==
    /\ (~FollowedPageFailed /\ FollowedPageFailed') =>
           /\ log' = Append(log, Last(log'))
           /\ yielded = ItemsBefore(log')
           /\ yielded' = yielded
    /\ (FollowedPageFailed /\ pc' # "idle") => log' = log /\ yielded' = yielded

\* C26: when page k > 1 of a listing is answered with a status other than 200,
\* the generator has yielded every item of pages 1..k-1 in order before it made
\* the failing request, it raises the error of that status (for
\* _getResultsListGenerator: NotAuthorized for 403, NotFound for 404, HTTPError
\* with the URL, method and status otherwise), and no request follows the
\* failing one.
C26_LatePageFailureAfterItems ==
    /\ [](FollowedPageFailed =>
            /\ yielded = ItemsBefore(log)
            /\ \A i \in 1..(Len(log) - 1) : GoodPage(log[i])
            /\ ~ENABLED GenNextPage
            /\ ~ENABLED GenFirstPage
            /\ ~ENABLED GenYield
            /\ pc = "gen_done" => result.kind = "raise"
            /\ (pc = "gen_done" /\ gen.impl = "_getResultsListGenerator") =>
                   SignalledAs(Last(log), result.exc))
    /\ [][FailingStep]_vars

\* Witness of C26: the second page is answered 404 after the two items of the
\* first page were yielded; the generator raised NotFound.
C26_Witness ==
    /\ FollowedPageFailed
    /\ pc = "gen_done"
    /\ gen.impl = "_getResultsListGenerator"
    /\ Len(log) = 2
    /\ log[2].response.status_code = 404
    /\ yielded = <<2, 1>>
    /\ RaisedType("HydroShareNotFound")

-----------------------------------------------------------------------------
(* Properties of the poll cycles (SpecBag) *)

\* log[i] is a request for the archive / for a task status, however it ended.
ArchiveRequest(i) == log[i].ev = "request" /\ log[i].url = BagUrl(hs, bag.pid)
PollRequest(i) == log[i].ev = "request" /\ log[i].url[3] = "/taskstatus/"

\* The answer to request log[i]: a "Not ready" descriptor / a true status.
SaysNotReady(i) ==
    /\ Answered(log[i])
    /\ log[i].response.status_code = 200
    /\ log[i].response.ctype = "application/json"
    /\ BagJson(log[i].response.content).ok
    /\ BagJson(log[i].response.content).bag_status = "Not ready"
SaysReady(i) ==
    /\ Answered(log[i])
    /\ TaskJson(log[i].response.content).ok
    /\ TaskJson(log[i].response.content).status

\* C27: while an archive is retrieved with wait_for_bag_creation = True, every
\* task-status poll comes directly after a sleep of 3 seconds (the first poll
\* too) and every sleep is followed by a poll; the archive is requested again
\* only directly after a poll that reported ready, so never between two polls
\* that follow each other; and every poll asks for the task_id of the newest
\* archive response, which was "Not ready".
C27_PollCycles ==
    (InRetrieval /\ bag.wait) =>
        /\ ArchiveRequest(1)
        /\ \A i \in 1..Len(log) :
            IF log[i].ev = "sleep"
            THEN /\ log[i].secs = 3
                 /\ i < Len(log)
                 /\ PollRequest(i + 1)
            ELSE IF PollRequest(i)
            THEN /\ i >= 3
                 /\ log[i - 1] = SleepEvent(3)
                 /\ \E a \in 1..(i - 2) :
                     /\ ArchiveRequest(a)
                     /\ SaysNotReady(a)
                     /\ \A j \in (a + 1)..(i - 1) : ~ArchiveRequest(j)
                     /\ log[i].url = TaskStatusUrl(hs, BagJson(log[a].response.content).task_id)
                 /\ (~SaysReady(i) /\ i < Len(log)) => log[i + 1].ev = "sleep"
            ELSE /\ ArchiveRequest(i)
                 /\ i > 1 => PollRequest(i - 1) /\ SaysReady(i - 1)

\* Witness of C27: the archive was not ready (task 0), the first poll reported
\* ready, the archive was again not ready and named task 1, and the poll of
\* the new cycle asked for task 1.
C27_Witness ==
    /\ InRetrieval
    /\ bag.wait
    /\ Len(log) = 6
    /\ NotReadyArchive(1)
    /\ BagJson(log[1].response.content).task_id = 0
    /\ ReadyPoll(3)
    /\ NotReadyArchive(4)
    /\ BagJson(log[4].response.content).task_id = 1
    /\ log[5] = SleepEvent(3)
    /\ log[6].url = TaskStatusUrl(hs, 1)

-----------------------------------------------------------------------------
(* Properties of the resource types cache (SpecCalls) *)

\* The requests of log l that GET the resource types.
TypesGets(l) ==
    {i \in 1..Len(l) : /\ l[i].ev = "request"
                       /\ l[i].method = "GET"
                       /\ l[i].url = hs.url_base \o <<"/resource/types">>}

\* What a step may do to the cache of resource types.  A createResource call
\* made with the cache unset starts with the one types GET of the call; the
\* cache is set to the answer when the GET succeeded, and stays unset, the call
\* failing with nothing else sent, when it did not.  A createResource call made
\* with the cache set sends no types GET and checks resource_type against the
\* cached set.  No step changes a cache that is set, and no other call sets it.
CacheStep ==
    /\ ~hs._resource_types.is_none => hs'._resource_types = hs._resource_types
    /\ IF pc = "idle" /\ pc' = "done" /\ op'.name = "createResource"
       THEN IF hs._resource_types.is_none
            THEN /\ TypesGets(log') = {1}
                 /\ IF Answered(log'[1]) /\ log'[1].response.status_code = 200
                    THEN hs'._resource_types =
                             [is_none |-> FALSE,
                              value |-> {log'[1].response.types[i] :
                                            i \in 1..Len(log'[1].response.types)}]
                    ELSE /\ hs'._resource_types.is_none
                         /\ result'.kind = "raise"
                         /\ Len(log') = 1
            ELSE /\ TypesGets(log') = {}
                 /\ IF op'.args[1] \in hs._resource_types.value
                    THEN Len(log') = 1 /\ log'[1].method = "POST"
                    ELSE /\ log' = << >>
                         /\ result'.kind = "raise"
                         /\ result'.exc.type = "HydroShareArgumentException"
       ELSE hs'._resource_types = hs._resource_types

\* C28: across any sequence of createResource calls the resource types are
\* fetched by the first call only, once that fetch succeeded: later calls send
\* no types GET and check resource_type against the cached set; a fetch that
\* failed leaves the cache unset, so the next call fetches again.
C28_TypesFetchedOnce == [][CacheStep]_vars

\* Witness of C28: a createResource call made with the cache set has sent its
\* POST and no types GET.
C28_Witness ==
    /\ CreateDone
    /\ ~hs._resource_types.is_none
    /\ Len(log) = 1
    /\ log[1].method = "POST"
    /\ TypesGets(log) = {}

\* A second witness of C28: a createResource call whose types GET failed has
\* left the cache unset.
C28_WitnessFailedFetch ==
    /\ CreateDone
    /\ hs._resource_types.is_none
    /\ TypesGets(log) = {1}
    /\ Answered(log[1])
    /\ log[1].response.status_code = 500

-----------------------------------------------------------------------------
(* Properties of the order of check and request (SpecLocal) *)

\* C29: getResourceFile checks its destination before it sends anything: with
\* a destination that is not a directory or not writable it raises
\* ArgumentError with no request made.  getResource gets the archive stream
\* first: with such a destination it raises ArgumentError only after the
\* archive GET, and, when the archive was not ready and the call waits, after
\* every poll up to the one that reported ready and the archive GET that
\* followed it; the failed check is the last thing the call does.
C29_CheckBeforeOrAfterRequest ==
    /\ (GetResourceFileDone /\ BadDestination(op.args[3])) =>
           /\ ArgumentError
           /\ log = << >>
           /\ fs = NoFiles
    /\ (GetResourceDone /\ BadDestination(op.args[2])) =>
           /\ result.kind = "raise"
           /\ StreamObtained => ArgumentError
    /\ (GetResourceDone /\ BadDestination(op.args[2]) /\ ArgumentError) =>
           /\ log # << >>
           /\ ArchiveRequest(1)
           /\ ArchiveRequest(Len(log))
           /\ StreamObtained
           /\ \A i \in 1..Len(log) : log[i].ev \in {"request", "sleep"}
           /\ SaysNotReady(1) =>
                  /\ Len(log) >= 4
                  /\ PollRequest(Len(log) - 1)
                  /\ SaysReady(Len(log) - 1)
           /\ fs = NoFiles

\* Witness of C29: getResource into a path that is no directory waited through
\* a poll that reported not ready and a poll that reported ready, got the
\* archive, and then raised ArgumentError.
C29_Witness ==
    /\ GetResourceDone
    /\ op.args[2] = "nodir"
    /\ ArgumentError
    /\ Len(log) = 6
    /\ SaysNotReady(1)
    /\ PollRequest(3) /\ ~SaysReady(3)
    /\ PollRequest(5) /\ SaysReady(5)
    /\ BinaryArchive(6)

\* A second witness of C29: getResourceFile into a directory that is not
\* writable raised ArgumentError with nothing sent.
C29_WitnessNoRequest ==
    /\ GetResourceFileDone
    /\ op.args[3] = "readonly"
    /\ ArgumentError
    /\ log = << >>

-----------------------------------------------------------------------------
(* Properties of a download that breaks off (SpecStore) *)

\* C30: in a getResource call with unzip=True whose stream raises while its
\* chunks are written, the error reaches the caller, no extraction is
\* attempted, and the temporary directory stays, holding the file with the
\* chunks written so far; the temporary directory is removed only after an
\* extraction was attempted.
C30_BrokenDownloadLeavesTempDir ==
    StoreCall(TRUE) =>
        /\ \A i \in Events("rmtree") : i > 1 /\ log[i - 1].ev = "extractall"
        /\ \A i \in Events("stream raised") :
            LET filepath == log[i].path
                tempdir == filepath[1]
            IN  /\ i = Len(log)
                /\ result = Raise(ConnectionError)
                /\ Events("extractall") = {}
                /\ Events("rmtree") = {}
                /\ log[2] = FsEvent("mkdtemp", tempdir)
                /\ log[3] = FsEvent("open", filepath)
                /\ filepath = ZipPath(tempdir)
                /\ tempdir \in TempDirs
                /\ tempdir \in fs.tmp
                /\ filepath \in DOMAIN fs.files
                /\ \A k \in 4..(i - 1) : log[k].ev = "write" /\ log[k].path = filepath
                /\ fs.files[filepath] = Concat([k \in 1..(i - 4) |-> log[3 + k].data])
                /\ fs.files[filepath] =
                       SubSeq(log[1].response.content, 1, Len(fs.files[filepath]))

\* Witness of C30: the stream of a two-byte archive raised after its first
\* chunk; the call raised and the temporary directory holds the one byte.
C30_Witness ==
    /\ StoreCall(TRUE)
    /\ log[1].response.content = <<1, 0>>
    /\ Last(log) = FsEvent("stream raised", ZipPath("tmp1"))
    /\ result = Raise(ConnectionError)
    /\ "tmp1" \in fs.tmp
    /\ fs.files[ZipPath("tmp1")] = <<1>>

====
